---- MODULE Spec2Model ----
(***************************************************************************)
(* Model of the code-submission judging pipeline of ChiselLMS              *)
(* (src/lib/code-execution-service.ts and the validation utilities it      *)
(* imports).                                                               *)
(*                                                                         *)
(* Representation.  Source text is a sequence of lines, a line a sequence  *)
(* of lexemes (strings); String.includes / startsWith / endsWith are the   *)
(* corresponding tests on lexemes.  Messages are sequences of words, so    *)
(* that the case-sensitive test errorMessage.includes("Time Limit") is     *)
(* computed and not assumed.  Times are milliseconds, similarity scores    *)
(* are hundredths (0.8 is 80).  The JavaScript value undefined is Undef.   *)
(*                                                                         *)
(* Specifications.  Spec is the judge: one request from the page to its    *)
(* return.  CheckerSpec is the output checker on its own: normalizeOutput  *)
(* and compareOutputs applied to output texts, which are sequences of      *)
(* one-character strings.  CompilerSpec is compileCode on sources built    *)
(* from a few kinds of lines, ClassifierSpec analyzeCodeComplexity on      *)
(* sources built from the patterns it looks for.  SessionSpec is several   *)
(* submitSolution calls in flight, interleaving at every store operation.  *)
(* ExecutorSpec is the judge with the simulated executor of                *)
(* language-executors.ts in place of its set of answers.                   *)
(***************************************************************************)
EXTENDS Integers, Sequences, FiniteSets, TLC

VARIABLES
    pc,               \* position of the one request being served
    entry,            \* which exported function the page called
    code, language,   \* the submitted source and its language tag
    problem,          \* Problem store: the row of the problem id, or Undef
    storedTestCases,  \* TestCase store: the rows of that problem (a set)
    testCases,        \* validateTestCases: result of testCase.findMany
    slots,            \* the promises handed to Promise.all, by index
    completionOrder,  \* indices of the test cases in the order they finished
    vt,               \* value returned by validateTestCases
    executionResult,  \* value returned by executeCode
    status,           \* local `status` of submitSolution
    submissions,      \* Submission store (append-only)
    solutions,        \* Solution store
    userStatistics,   \* user_statistics rows, by user
    ret,              \* value returned by submitSolution
    calls,            \* how often each collaborator was invoked in this run
    faults,           \* which collaborators threw in this run
    step,             \* checker: how far one output text has been processed
    tag,              \* checker: the problem type the text is normalized for
    given,            \* checker: the output text under normalization
    other,            \* checker: the expected output it is compared with
    canonical,        \* checker: normalizeOutput of the (padded) given text
    canonicalOther,   \* checker: normalizeOutput of the expected output
    again,            \* checker: normalizeOutput of the canonical form
    padded,           \* checker: the given text with whitespace around it
    verdict,          \* checker: value returned by compareOutputs
    analysis,         \* classifier: value returned by analyzeCodeComplexity
    requests,         \* session: the submitSolution calls in flight, by call
    overlapped,       \* session: two calls have been in progress at once
    rankingOk,        \* session: the last updateLeaderboardRankings completed
    loop              \* executor: the `while (j === i)` loop being executed

judgeVars == <<pc, entry, code, language, problem, storedTestCases, testCases,
               slots, completionOrder, vt, executionResult, status, submissions,
               solutions, userStatistics, ret, calls, faults>>

checkerVars == <<step, tag, given, other, canonical, canonicalOther, again, padded,
                 verdict>>

classifierVars == <<analysis>>

sessionVars == <<requests, overlapped, rankingOk>>

executorVars == <<loop>>

auxVars == <<classifierVars, sessionVars, executorVars>>

vars == <<judgeVars, checkerVars, auxVars>>

Undef == "undefined"

\* ---------------------------------------------------------------- bounds
MaxTests == 2
MaxLen == 3
MaxIndex == 2
MaxItems == 3
MaxLines == 3
MaxSignals == 3
MaxNums == 2

\* ------------------------------------------------------------- constants
DefaultTimeLimit == 2000
DefaultMemoryLimit == 128
BlockScore == 80
StubScore == 10
AcceptedXp == 100

\* ------------------------------------------------------- string helpers
Last(s) == s[Len(s)]

RECURSIVE TrimLeft(_)
TrimLeft(line) ==
    IF line # <<>> /\ Head(line) = " " THEN TrimLeft(Tail(line)) ELSE line

RECURSIVE TrimRight(_)
TrimRight(line) ==
    IF line # <<>> /\ Last(line) = " "
    THEN TrimRight(SubSeq(line, 1, Len(line) - 1))
    ELSE line

Trim(line) == TrimRight(TrimLeft(line))

\* a lexeme that contains another one as a substring
SubLexemes ==
    { <<"public static void main(", "public static void main">>,
      <<"public static void main(", "main(">>,
      <<"< mid", "mid">>, <<"> mid", "mid">>,
      <<".sort(", "sort(">>, <<"Arrays.sort(", "sort(">>,
      <<"Arrays.sort(", ".sort(">>,
      <<"HashMap", "Map">>, <<"unordered_map", "map">> }

LexemeIncludes(lex, needle) == lex = needle \/ <<lex, needle>> \in SubLexemes

LineIncludes(line, needle) ==
    \E i \in 1..Len(line) : LexemeIncludes(line[i], needle)

CodeIncludes(src, needle) ==
    \E l \in 1..Len(src) : LineIncludes(src[l], needle)

StartsWith(line, lex) == line # <<>> /\ Head(line) = lex
EndsWith(line, lex) == line # <<>> /\ Last(line) = lex

\* words.includes(needle) for messages: a contiguous run of words
Includes(words, needle) ==
    \E i \in 1..(Len(words) - Len(needle) + 1) :
        SubSeq(words, i, i + Len(needle) - 1) = needle

\* --------------------------------------------------------------- messages
\* an absent (undefined) or empty message; both are falsy in the source
NoMessage == <<>>
\* the text submitSolution looks for in a test case's errorMessage
TimeLimitNeedleLowerCase == <<"Time", "limit">>

TimeLimitNeedle == <<"Time", "Limit">>
TimeLimitReason == <<"Time", "limit", "exceeded:">>
MemoryLimitReason == <<"Memory", "limit", "exceeded:">>
NoSolutionFound == <<"No", "solution", "found">>
ExecutorThrown == <<"Cannot", "read", "properties", "of", "undefined">>
StoreThrown == <<"Can't", "reach", "database", "server">>
MissingMain == <<"error:", "missing", "main">>
MissingMainCpp == <<"error:", "'main'", "function", "not", "found">>
MissingTerminator == <<"error:", "';'", "expected">>
MissingTerminatorCpp == <<"error:", "expected", "';'", "at", "end", "of", "declaration">>

\* ------------------------------------------------------------ compileCode
\* the test of the missing-terminator loop on a trimmed line
Unterminated(line, lang) ==
    /\ line # <<>>
    /\ ~EndsWith(line, "{")
    /\ ~EndsWith(line, "}")
    /\ ~EndsWith(line, ";")
    /\ ~StartsWith(line, "//")
    /\ ~StartsWith(line, "/*")
    /\ ~EndsWith(line, "*/")
    /\ IF lang = "java"
       THEN ~StartsWith(line, "package") /\ ~StartsWith(line, "import")
       ELSE ~LineIncludes(line, "#include")

\* first line (1-based) for which the missing-terminator test fires, or 0
RECURSIVE FirstUnterminated(_, _, _)
LastUnterminated(lines, i, lang) ==
    IF \E k \in i..Len(lines) : Unterminated(Trim(lines[k]), lang)
    THEN CHOOSE k \in i..Len(lines) :
            /\ Unterminated(Trim(lines[k]), lang)
            /\ \A m \in (k + 1)..Len(lines) : ~Unterminated(Trim(lines[m]), lang)
    ELSE 0

FirstUnterminated(lines, i, lang) ==
    IF i > Len(lines) THEN 0
    ELSE IF Unterminated(Trim(lines[i]), lang) THEN i
    ELSE FirstUnterminated(lines, i + 1, lang)

\* `error: ... at line ${i + 1}: ${line}` for the line with 1-based number n
TerminatorError(lang, n, line) ==
    (IF lang = "java" THEN MissingTerminator ELSE MissingTerminatorCpp)
        \o <<"at", "line", ToString(n)>> \o line

compileCodeWithoutEntryCheck(src, lang) ==
    LET n == FirstUnterminated(src, 1, lang) IN
    IF lang \in {"java", "cpp"} /\ n # 0
    THEN [success |-> FALSE, error |-> TerminatorError(lang, n, Trim(src[n]))]
    ELSE [success |-> TRUE, error |-> NoMessage]

compileCode(src, lang) ==
    IF lang \in {"javascript", "python"} THEN [success |-> TRUE, error |-> NoMessage]
    ELSE IF lang = "java" THEN
        IF ~CodeIncludes(src, "class") \/ ~CodeIncludes(src, "public static void main")
        THEN [success |-> FALSE, error |-> MissingMain]
        ELSE LET n == FirstUnterminated(src, 1, "java") IN
             IF n # 0
             THEN [success |-> FALSE, error |-> TerminatorError("java", n, Trim(src[n]))]
             ELSE [success |-> TRUE, error |-> NoMessage]
    ELSE IF lang = "cpp" THEN
        IF ~CodeIncludes(src, "main(") /\ ~CodeIncludes(src, "main (")
        THEN [success |-> FALSE, error |-> MissingMainCpp]
        ELSE LET n == FirstUnterminated(src, 1, "cpp") IN
             IF n # 0
             THEN [success |-> FALSE, error |-> TerminatorError("cpp", n, Trim(src[n]))]
             ELSE [success |-> TRUE, error |-> NoMessage]
    ELSE [success |-> TRUE, error |-> NoMessage]

\* ------------------------------------------------- texts (output strings)
\* An output text is a sequence of one-character strings.
Digits == <<"0", "1", "2", "3", "4", "5", "6", "7", "8", "9">>
UpperCase == <<"A", "B", "C", "D", "E", "F", "G", "H", "I", "J", "K", "L", "M",
               "N", "O", "P", "Q", "R", "S", "T", "U", "V", "W", "X", "Y", "Z">>
LowerCase == <<"a", "b", "c", "d", "e", "f", "g", "h", "i", "j", "k", "l", "m",
               "n", "o", "p", "q", "r", "s", "t", "u", "v", "w", "x", "y", "z">>

IsDigit(c) == \E d \in 1..10 : Digits[d] = c
DigitValue(c) == (CHOOSE d \in 1..10 : Digits[d] = c) - 1
IsSpace(c) == c \in {" ", "\n", "\t", "\r"}
ToLowerChar(c) ==
    IF \E k \in 1..26 : UpperCase[k] = c
    THEN LowerCase[CHOOSE k \in 1..26 : UpperCase[k] = c]
    ELSE c

TextIncludes(text, c) == \E i \in 1..Len(text) : text[i] = c

\* first index j >= i with text[j] outside the class, Len(text)+1 if none
RECURSIVE SkipSpaces(_, _)
SkipSpaces(text, i) ==
    IF i <= Len(text) /\ IsSpace(text[i]) THEN SkipSpaces(text, i + 1) ELSE i

RECURSIVE SkipDigits(_, _)
SkipDigits(text, i) ==
    IF i <= Len(text) /\ IsDigit(text[i]) THEN SkipDigits(text, i + 1) ELSE i

\* String.prototype.trim
TrimText(text) ==
    LET first == SkipSpaces(text, 1)
        lastIdx == CHOOSE j \in 0..Len(text) :
                      /\ (j > 0 => ~IsSpace(text[j]))
                      /\ \A k \in (j + 1)..Len(text) : IsSpace(text[k])
    IN IF first > Len(text) THEN <<>> ELSE SubSeq(text, first, lastIdx)

\* output.replace(/\s+/g, "")
RemoveSpaces(text) == SelectSeq(text, LAMBDA c : ~IsSpace(c))

ToLowerCase(text) == [i \in 1..Len(text) |-> ToLowerChar(text[i])]

\* value of a run of digits
RECURSIVE DigitsToNat(_)
DigitsToNat(ds) ==
    IF ds = <<>> THEN 0
    ELSE 10 * DigitsToNat(SubSeq(ds, 1, Len(ds) - 1)) + DigitValue(Last(ds))

\* String(n) for a natural number
RECURSIVE NatToText(_)
NatToText(n) ==
    IF n < 10 THEN <<Digits[n + 1]>>
    ELSE NatToText(n \div 10) \o <<Digits[(n % 10) + 1]>>

\* end index of a match of /\[\s*\d+\s*,\s*\d+\s*\]/ that starts at i, or 0
PairMatchEnd(text, i) ==
    IF i > Len(text) \/ text[i] # "[" THEN 0
    ELSE LET a == SkipSpaces(text, i + 1)
             b == SkipDigits(text, a)
             c == SkipSpaces(text, b)
             d == SkipSpaces(text, c + 1)
             e == SkipDigits(text, d)
             f == SkipSpaces(text, e)
         IN IF /\ b > a
               /\ c <= Len(text) /\ text[c] = ","
               /\ e > d
               /\ f <= Len(text) /\ text[f] = "]"
            THEN f ELSE 0

\* text.match(/\[\s*\d+\s*,\s*\d+\s*\]/): the leftmost match, or <<>>
PairMatch(text) ==
    IF \E i \in 1..Len(text) : PairMatchEnd(text, i) # 0
    THEN LET i == CHOOSE k \in 1..Len(text) :
                      /\ PairMatchEnd(text, k) # 0
                      /\ \A m \in 1..(k - 1) : PairMatchEnd(text, m) = 0
         IN SubSeq(text, i, PairMatchEnd(text, i))
    ELSE <<>>

\* ------------------------------------------------------------ JSON values
\* An array element is a number or a string.
NumItem(n) == [isNum |-> TRUE, n |-> n, s |-> <<>>]
StrItem(s) == [isNum |-> FALSE, n |-> 0, s |-> s]

\* a JSON number of the texts used here: digits without a leading zero
IsJsonNumber(text) ==
    /\ text # <<>>
    /\ \A i \in 1..Len(text) : IsDigit(text[i])
    /\ (Len(text) > 1 => text[1] # "0")

\* characters JSON.parse accepts after a backslash inside a string literal
\* (\b, \f and \uXXXX do not occur in the texts used here)
EscapeChars == {"\"", "\\", "/", "n", "t", "r"}

\* index of the quote that closes the string literal whose content starts at
\* i, or 0 when the literal is malformed (unterminated, a raw control
\* character, an unknown escape)
RECURSIVE StringEnd(_, _)
StringEnd(text, i) ==
    IF i > Len(text) THEN 0
    ELSE IF text[i] = "\"" THEN i
    ELSE IF text[i] = "\\"
    THEN IF i + 1 <= Len(text) /\ text[i + 1] \in EscapeChars
         THEN StringEnd(text, i + 2) ELSE 0
    ELSE IF text[i] \in {"\n", "\t", "\r"} THEN 0
    ELSE StringEnd(text, i + 1)

\* the characters a string literal's content stands for
RECURSIVE Unescape(_)
Unescape(s) ==
    IF s = <<>> THEN <<>>
    ELSE IF s[1] = "\\"
    THEN <<CASE s[2] = "n" -> "\n" [] s[2] = "t" -> "\t" [] s[2] = "r" -> "\r"
               [] OTHER -> s[2]>> \o Unescape(SubSeq(s, 3, Len(s)))
    ELSE <<s[1]>> \o Unescape(Tail(s))

\* a JSON string literal
IsJsonString(text) ==
    /\ Len(text) >= 2
    /\ text[1] = "\""
    /\ StringEnd(text, 2) = Len(text)

\* the pieces of text between the separator characters (String.split)
RECURSIVE Split(_, _)
Split(text, sep) ==
    IF ~TextIncludes(text, sep) THEN <<text>>
    ELSE LET i == CHOOSE k \in 1..Len(text) :
                      text[k] = sep /\ \A m \in 1..(k - 1) : text[m] # sep
         IN <<SubSeq(text, 1, i - 1)>> \o Split(SubSeq(text, i + 1, Len(text)), sep)

NoItems == [ok |-> FALSE, items |-> <<>>]

\* the elements of a JSON array text from index i up to its closing bracket,
\* the last character of text
RECURSIVE ItemsFrom(_, _)
ItemsFrom(text, i) ==
    LET a == SkipSpaces(text, i)
        isString == text[a] = "\""
        e == IF isString THEN StringEnd(text, a + 1) ELSE SkipDigits(text, a) - 1
        okItem == IF isString THEN e # 0
                  ELSE IsJsonNumber(SubSeq(text, a, e))
        item == IF isString THEN StrItem(Unescape(SubSeq(text, a + 1, e - 1)))
                ELSE NumItem(DigitsToNat(SubSeq(text, a, e)))
        after == SkipSpaces(text, e + 1)
    IN IF ~okItem THEN NoItems
       ELSE IF after = Len(text) THEN [ok |-> TRUE, items |-> <<item>>]
       ELSE IF text[after] = ","
       THEN LET rest == ItemsFrom(text, after + 1) IN
            IF rest.ok THEN [ok |-> TRUE, items |-> <<item>> \o rest.items]
            ELSE NoItems
       ELSE NoItems

\* JSON.parse restricted to numbers, strings and flat arrays of them;
\* ok = FALSE stands for the SyntaxError it throws
JSONparse(text) ==
    LET t == TrimText(text) IN
    IF IsJsonNumber(t)
    THEN [ok |-> TRUE, isArray |-> FALSE, items |-> <<NumItem(DigitsToNat(t))>>]
    ELSE IF IsJsonString(t)
    THEN [ok |-> TRUE, isArray |-> FALSE,
          items |-> <<StrItem(Unescape(SubSeq(t, 2, Len(t) - 1)))>>]
    ELSE IF Len(t) >= 2 /\ t[1] = "[" /\ Last(t) = "]"
    THEN IF SkipSpaces(t, 2) = Len(t)
         THEN [ok |-> TRUE, isArray |-> TRUE, items |-> <<>>]
         ELSE LET parsed == ItemsFrom(t, 2) IN
              [ok |-> parsed.ok, isArray |-> parsed.ok, items |-> parsed.items]
    ELSE [ok |-> FALSE, isArray |-> FALSE, items |-> <<>>]

\* the string literal JSON.stringify writes for these characters
RECURSIVE EscapeText(_)
EscapeText(s) ==
    IF s = <<>> THEN <<>>
    ELSE (CASE s[1] = "\"" -> <<"\\", "\"">>
            [] s[1] = "\\" -> <<"\\", "\\">>
            [] s[1] = "\n" -> <<"\\", "n">>
            [] s[1] = "\t" -> <<"\\", "t">>
            [] s[1] = "\r" -> <<"\\", "r">>
            [] OTHER -> <<s[1]>>) \o EscapeText(Tail(s))

ItemText(item) ==
    IF item.isNum THEN NatToText(item.n)
    ELSE <<"\"">> \o EscapeText(item.s) \o <<"\"">>

RECURSIVE JoinItems(_)
JoinItems(items) ==
    IF items = <<>> THEN <<>>
    ELSE IF Len(items) = 1 THEN ItemText(items[1])
    ELSE ItemText(items[1]) \o <<",">> \o JoinItems(Tail(items))

\* JSON.stringify of an array
JSONstringify(items) == <<"[">> \o JoinItems(items) \o <<"]">>

AllNumbers(items) == \A k \in 1..Len(items) : items[k].isNum

\* array.sort((a, b) => a - b) for a two-element array of numbers
SortPairKeepsOrder(items) == items

SortPair(items) ==
    IF items[1].n <= items[2].n THEN items ELSE <<items[2], items[1]>>

\* Number(v) of a trimmed piece: "" is 0, digits are their value, else NaN
NumberOf(piece) ==
    IF piece = <<>> THEN NumItem(0)
    ELSE IF \A i \in 1..Len(piece) : IsDigit(piece[i])
    THEN NumItem(DigitsToNat(piece))
    ELSE StrItem(piece)

\* -------------------------------------------------------- normalizeOutput
normalizeGenericOutput(output) == ToLowerCase(RemoveSpaces(output))

normalizeStringOutput(output) ==
    LET normalized == TrimText(output)
        quoted == /\ normalized # <<>>
                  /\ \/ normalized[1] = "\"" /\ Last(normalized) = "\""
                     \/ normalized[1] = "'" /\ Last(normalized) = "'"
        \* substring(1, length - 1); for a one-character text the arguments
        \* are swapped and the character itself comes back
        inner == IF quoted /\ Len(normalized) > 1
                 THEN SubSeq(normalized, 2, Len(normalized) - 1)
                 ELSE normalized
    IN ToLowerCase(RemoveSpaces(inner))

CommaSeparated(output) ==
    LET values == Split(output, ",") IN
    [k \in 1..Len(values) |-> NumberOf(TrimText(values[k]))]

normalizeTwoSumOutput(output) ==
    LET match == PairMatch(output)
        parsed == JSONparse(match)
    IN IF TextIncludes(output, "[") /\ TextIncludes(output, "]") /\ match # <<>>
       THEN IF ~parsed.ok THEN normalizeGenericOutput(output)
            ELSE IF parsed.isArray /\ Len(parsed.items) = 2 /\ AllNumbers(parsed.items)
            THEN JSONstringify(SortPair(parsed.items))
            ELSE match
       ELSE IF TextIncludes(output, ",")
       THEN LET parsedValues == CommaSeparated(output) IN
            IF Len(parsedValues) = 2 /\ AllNumbers(parsedValues)
            THEN JSONstringify(SortPair(parsedValues))
            ELSE JSONstringify(parsedValues)
       ELSE normalizeGenericOutput(output)

normalizeArrayOutput(output) ==
    IF output # <<>> /\ output[1] = "[" /\ Last(output) = "]" /\ JSONparse(output).ok
    THEN JSONstringify(JSONparse(output).items)
    ELSE IF ~(output # <<>> /\ output[1] = "[" /\ Last(output) = "]")
            /\ TextIncludes(output, ",")
    THEN JSONstringify(CommaSeparated(output))
    ELSE normalizeGenericOutput(output)

normalizeOutput(output, problemType) ==
    IF output = <<>> THEN <<>>
    ELSE IF problemType = "two-sum" THEN normalizeTwoSumOutput(output)
    ELSE IF problemType = "array" THEN normalizeArrayOutput(output)
    ELSE IF problemType = "string" THEN normalizeStringOutput(output)
    ELSE normalizeGenericOutput(output)

\* --------------------------------------------------------- compareOutputs
\* the two shapes of the value returned: {passed: true}, and
\* {passed: false, diff, visualDiff}; the diff texts are not modelled
Match == [passed |-> TRUE, hasDiff |-> FALSE]
Mismatch == [passed |-> FALSE, hasDiff |-> TRUE]
\* no comparison made yet
NoVerdict == [passed |-> FALSE, hasDiff |-> FALSE]

\* actualArray of compareTwoSumOutputs: JSON.parse(actual), and when that
\* throws, JSON.parse of the bracketed pair found inside actual
ActualArray(actual) ==
    LET direct == JSONparse(actual)
        match == PairMatch(actual)
    IN IF direct.ok THEN direct
       ELSE IF match # <<>> THEN JSONparse(match)
       ELSE [ok |-> FALSE, isArray |-> FALSE, items |-> <<>>]

\* the catch block of compareTwoSumOutputs: the plain string comparison
ScalarFallbackNeverMatches(expected, actual) == Mismatch

ScalarFallback(expected, actual) == IF expected = actual THEN Match ELSE Mismatch

compareTwoSumOutputs(expected, actual) ==
    LET expectedArray == JSONparse(expected)
        actualArray == ActualArray(actual)
    IN IF ~expectedArray.ok \/ ~actualArray.ok
       THEN ScalarFallback(expected, actual)
       ELSE IF ~expectedArray.isArray \/ ~actualArray.isArray
       THEN Mismatch
       ELSE IF /\ Len(expectedArray.items) = 2 /\ AllNumbers(expectedArray.items)
               /\ Len(actualArray.items) = 2 /\ AllNumbers(actualArray.items)
       THEN IF SortPair(expectedArray.items) = SortPair(actualArray.items)
            THEN Match ELSE Mismatch
       ELSE IF JSONstringify(expectedArray.items) = JSONstringify(actualArray.items)
            THEN Match ELSE Mismatch

compareOutputs(expected, actual, problemType) ==
    IF problemType = "two-sum" THEN compareTwoSumOutputs(expected, actual)
    ELSE IF expected = actual THEN Match ELSE Mismatch

\* String(output): the executors return strings
formatOutput(output) == output

\* texts the simulated executors and the judge produce
PairText(i, j) == <<"[">> \o NatToText(i) \o <<",">> \o NatToText(j) \o <<"]">>
EmptyArrayText == <<"[", "]">>
ErrorExecutingText == <<"E", "r", "r", "o", "r">>

\* --------------------------------------------------- analyzeCodeComplexity
RECURSIVE CountInLine(_, _)
CountInLine(line, lexemes) ==
    IF line = <<>> THEN 0
    ELSE (IF Head(line) \in lexemes THEN 1 ELSE 0) + CountInLine(Tail(line), lexemes)

\* (code.match(re) || []).length for a pattern matching these lexemes
RECURSIVE CountMatches(_, _)
CountMatches(src, lexemes) ==
    IF src = <<>> THEN 0
    ELSE CountInLine(Head(src), lexemes) + CountMatches(Tail(src), lexemes)

\* a classifier whose isOptimal starts out true
analyzeCodeComplexityOptimalByDefault(src, lang, problemType) ==
    [timeComplexity |-> "O(n)", spaceComplexity |-> "O(n)", isOptimal |-> TRUE]

analyzeCodeComplexity(src, lang, problemType) ==
    LET hasNestedLoops == \/ CountMatches(src, {"for(", "for ("}) >= 2
                          \/ CountMatches(src, {"while(", "while ("}) >= 2
        hasHashMap == \/ CodeIncludes(src, "Map(")
                      \/ CodeIncludes(src, "Object.")
                      \/ CodeIncludes(src, "dict(")
                      \/ CodeIncludes(src, "HashMap")
                      \/ CodeIncludes(src, "unordered_map")
        hasBinarySearch == /\ CodeIncludes(src, "mid")
                           /\ CodeIncludes(src, "left") \/ CodeIncludes(src, "right")
                           /\ CodeIncludes(src, "< mid") \/ CodeIncludes(src, "> mid")
        R(t, sp, o) == [timeComplexity |-> t, spaceComplexity |-> sp, isOptimal |-> o]
    IN IF problemType = "two-sum" THEN
            IF hasNestedLoops /\ ~hasHashMap THEN R("O(n^2)", "O(1)", FALSE)
            ELSE IF hasHashMap THEN R("O(n)", "O(n)", TRUE)
            ELSE R("O(n)", "O(n)", FALSE)
       ELSE IF problemType = "binary-search" THEN
            IF hasBinarySearch THEN R("O(log n)", "O(1)", TRUE)
            ELSE R("O(n)", "O(1)", FALSE)
       ELSE IF problemType = "sorting" THEN
            IF \/ CodeIncludes(src, "sort(") \/ CodeIncludes(src, ".sort(")
               \/ CodeIncludes(src, "Arrays.sort(")
            THEN R("O(n log n)", "O(log n)", TRUE)
            ELSE IF hasNestedLoops THEN R("O(n^2)", "O(1)", FALSE)
            ELSE R("O(n)", "O(n)", FALSE)
       ELSE IF hasNestedLoops THEN R("O(n^2)", "O(n)", FALSE)
            ELSE IF hasBinarySearch THEN R("O(log n)", "O(1)", FALSE)
            ELSE R("O(n)", "O(n)", FALSE)

\* --------------------------------------------------------- detectPlagiarism
\* the screener of the repository compares with nothing and reports a fixed
\* low score
detectPlagiarism(src, lang, problemId) == [isPlagiarized |-> FALSE, score |-> StubScore]

\* --------------------------------------------------- checkPerformanceLimits
checkPerformanceLimits(executionTime, memoryUsed, timeLimit, memoryLimit) ==
    IF executionTime > timeLimit THEN [passed |-> FALSE, reason |-> TimeLimitReason]
    ELSE IF memoryUsed > memoryLimit THEN [passed |-> FALSE, reason |-> MemoryLimitReason]
    ELSE [passed |-> TRUE, reason |-> NoMessage]

\* ---------------------------------------------------------- executeTestCase
\* executionTime of a result built in the catch block (the field is absent)
NoTime == -1

\* What runCodeInLanguage can do: return {output, error?}, or throw.
Threw == [threw |-> TRUE, output |-> <<>>, error |-> ExecutorThrown]
Returned(output, error) == [threw |-> FALSE, output |-> output, error |-> error]

executeTestCase(testCase, response, executionTime, problemType, timeLimit, memoryLimit) ==
    LET base == [input |-> testCase.input, expectedOutput |-> testCase.expected_output]
        performanceCheck == checkPerformanceLimits(executionTime, 0, timeLimit, memoryLimit)
        formattedOutput == formatOutput(response.output)
        normalizedExpected == normalizeOutput(testCase.expected_output, problemType)
        normalizedActual == normalizeOutput(formattedOutput, problemType)
        comparisonResult == compareOutputs(normalizedExpected, normalizedActual, problemType)
    IN IF response.threw
       THEN base @@ [actualOutput |-> ErrorExecutingText, passed |-> FALSE,
                     executionTime |-> NoTime, errorMessage |-> response.error]
       ELSE IF response.error # NoMessage
       THEN base @@ [actualOutput |-> <<>>, passed |-> FALSE,
                     executionTime |-> executionTime, errorMessage |-> response.error]
       ELSE IF ~performanceCheck.passed
       THEN base @@ [actualOutput |-> response.output, passed |-> FALSE,
                     executionTime |-> executionTime,
                     errorMessage |-> performanceCheck.reason]
       ELSE base @@ [actualOutput |-> formattedOutput,
                     passed |-> comparisonResult.passed,
                     executionTime |-> executionTime, errorMessage |-> NoMessage]

\* ------------------------------------------------------ validateTestCases
\* `if (!compilationResult.success)`: the early return of validateTestCases
CompilationFailedIgnored(compilationResult) == FALSE

CompilationFailed(compilationResult) == ~compilationResult.success

NoValidation == [defined |-> FALSE]
NoExecution == [defined |-> FALSE]
NoReturn == [defined |-> FALSE]

\* the three early returns of validateTestCases (compilation failed, problem
\* not found, no test cases)
EarlyReturn(compilationError, message, feedback) ==
    [defined |-> TRUE, testCasesPassed |-> 0, totalTestCases |-> 0, results |-> <<>>,
     isOptimal |-> FALSE, compilationError |-> compilationError,
     compilationErrorMessage |-> message,
     timeComplexity |-> Undef, spaceComplexity |-> Undef,
     potentialPlagiarism |-> FALSE, plagiarismScore |-> 0, feedback |-> feedback]

\* the feedback of the three early returns
FailedToCompile == <<"Your code failed to compile. Check the error message for details.",
                     "Make sure all syntax is correct for the chosen language.">>
ProblemNotFound == <<"Problem not found">>
NoTestCasesFound == <<"No test cases found for this problem">>

\* results.filter((r) => r.passed).length
RECURSIVE CountPassed(_)
CountPassedAll(results) == Len(results)

CountPassed(results) ==
    IF results = <<>> THEN 0
    ELSE (IF Head(results).passed THEN 1 ELSE 0) + CountPassed(Tail(results))

\* what `await Promise.all(promises)` yields once every promise is settled:
\* the values by position in the array of promises
PromiseAllByCompletion(settled, order, n) == [k \in 1..n |-> settled[order[k]]]

PromiseAll(settled, order, n) == [i \in 1..n |-> settled[i]]

\* problem.code || "general", problem.time_limit || 2000,
\* problem.memory_limit || 128 (an unset column is "" or 0)
ProblemTypeOf(problemRow) == IF problemRow.code # "" THEN problemRow.code ELSE "general"
TimeLimitOf(problemRow) ==
    IF problemRow.time_limit # 0 THEN problemRow.time_limit ELSE DefaultTimeLimit
MemoryLimitOf(problemRow) ==
    IF problemRow.memory_limit # 0 THEN problemRow.memory_limit ELSE DefaultMemoryLimit

\* ---------------------------------------------------------- generateFeedback
AllPassedNote == "Great job! All test cases passed."
OptimalNote == "Your solution has optimal time and space complexity."
CouldBeOptimizedNote == "Your solution works correctly, but could be optimized."
NonePassedNote ==
    "Your solution didn't pass any test cases. Review the problem statement carefully."
SomePassedNote(passed, total) ==
    "Your solution passed " \o ToString(passed) \o " out of " \o ToString(total)
        \o " test cases."
EdgeCasesNote ==
    "Your code has runtime errors on some test cases. Check for edge cases like empty arrays or null values."
OptimizeNote == "Your solution exceeds the time limit. Try to optimize your algorithm."

\* failedResults.some((r) => r.errorMessage && r.errorMessage.includes("Time Limit"))
HasTimeLimitExceeded(failedResults) ==
    \E k \in 1..Len(failedResults) :
        /\ failedResults[k].errorMessage # NoMessage
        /\ Includes(failedResults[k].errorMessage, TimeLimitNeedle)

\* failedResults.some((r) => r.errorMessage && !r.errorMessage.includes("Time Limit"))
HasRuntimeErrors(failedResults) ==
    \E k \in 1..Len(failedResults) :
        /\ failedResults[k].errorMessage # NoMessage
        /\ ~Includes(failedResults[k].errorMessage, TimeLimitNeedle)

generateFeedback(results, passed, total, complexity) ==
    LET overall ==
            IF passed = total
            THEN <<AllPassedNote,
                   IF complexity.isOptimal THEN OptimalNote ELSE CouldBeOptimizedNote>>
            ELSE IF passed = 0 THEN <<NonePassedNote>>
            ELSE <<SomePassedNote(passed, total)>>
        failedResults == SelectSeq(results, LAMBDA r : ~r.passed)
    IN overall
         \o (IF failedResults # <<>> /\ HasRuntimeErrors(failedResults)
             THEN <<EdgeCasesNote>> ELSE <<>>)
         \o (IF failedResults # <<>> /\ HasTimeLimitExceeded(failedResults)
             THEN <<OptimizeNote>> ELSE <<>>)

\* the part of validateTestCases after the test cases have run
Scored(results, src, lang, problemRow, total) ==
    LET problemType == ProblemTypeOf(problemRow)
        timeLimit == TimeLimitOf(problemRow)
        testCasesPassed == CountPassed(results)
        complexityAnalysis == analyzeCodeComplexity(src, lang, problemType)
        plagiarismCheck == detectPlagiarism(src, lang, problemRow.id)
        isOptimal ==
            /\ testCasesPassed = total
            /\ complexityAnalysis.isOptimal
            /\ \A k \in 1..Len(results) :
                  /\ results[k].executionTime # NoTime
                  /\ results[k].executionTime # 0
                  /\ 2 * results[k].executionTime < timeLimit
    IN [defined |-> TRUE, testCasesPassed |-> testCasesPassed, totalTestCases |-> total,
        results |-> results, isOptimal |-> isOptimal, compilationError |-> FALSE,
        compilationErrorMessage |-> NoMessage,
        timeComplexity |-> complexityAnalysis.timeComplexity,
        spaceComplexity |-> complexityAnalysis.spaceComplexity,
        potentialPlagiarism |-> plagiarismCheck.isPlagiarized,
        plagiarismScore |-> plagiarismCheck.score,
        feedback |-> generateFeedback(results, testCasesPassed, total, complexityAnalysis)]

\* ------------------------------------------------------------ executeCode
\* the value executeCode builds from what validateTestCases returned
executeCodeReturn(v) ==
    IF v.compilationError
    THEN [defined |-> TRUE, success |-> FALSE, testCasesPassed |-> 0,
          totalTestCases |-> v.totalTestCases, testCaseResults |-> <<>>,
          errorMessage |-> v.compilationErrorMessage, compilationError |-> TRUE,
          timeComplexity |-> Undef, spaceComplexity |-> Undef,
          potentialPlagiarism |-> FALSE, plagiarismScore |-> 0,
          plagiarismWarning |-> FALSE]
    ELSE [defined |-> TRUE, success |-> (v.testCasesPassed = v.totalTestCases),
          testCasesPassed |-> v.testCasesPassed,
          totalTestCases |-> v.totalTestCases, testCaseResults |-> v.results,
          errorMessage |-> NoMessage, compilationError |-> FALSE,
          timeComplexity |-> v.timeComplexity, spaceComplexity |-> v.spaceComplexity,
          potentialPlagiarism |-> v.potentialPlagiarism,
          plagiarismScore |-> v.plagiarismScore,
          plagiarismWarning |-> v.potentialPlagiarism]

\* the value executeCode returns from its catch block
executeCodeCatch(message) ==
    [defined |-> TRUE, success |-> FALSE, testCasesPassed |-> 0, totalTestCases |-> 0,
     testCaseResults |-> <<>>, errorMessage |-> message, compilationError |-> FALSE,
     timeComplexity |-> Undef, spaceComplexity |-> Undef,
     potentialPlagiarism |-> FALSE, plagiarismScore |-> 0,
     plagiarismWarning |-> FALSE]

\* --------------------------------------------------------- submitSolution
\* `status` as submitSolution decides it from the ExecutionResult
DetermineStatusAnyPass(er) ==
    IF er.testCasesPassed > 0 THEN "Accepted" ELSE "Wrong Answer"

DetermineStatus(er) ==
    IF er.testCasesPassed = er.totalTestCases THEN "Accepted"
    ELSE IF \E k \in 1..Len(er.testCaseResults) :
               Includes(er.testCaseResults[k].errorMessage, TimeLimitNeedle)
    THEN "Time Limit Exceeded"
    ELSE IF \E k \in 1..Len(er.testCaseResults) :
               /\ er.testCaseResults[k].errorMessage # NoMessage
               /\ ~Includes(er.testCaseResults[k].errorMessage, TimeLimitNeedle)
    THEN "Runtime Error"
    ELSE "Wrong Answer"

\* the plagiarism gate of submitSolution
PlagiarismBlocked(er) == er.potentialPlagiarism /\ er.plagiarismScore > BlockScore

XpEarned(st) == IF st = "Accepted" THEN AcceptedXp ELSE 0

\* `if (status === "Accepted")` in front of prisma.solution.create
ShouldSaveSolutionUnlessWrong(st) == st # "Wrong Answer"

ShouldSaveSolution(st) == st = "Accepted"

\* ---------------------------------------------------- updateUserStatistics
Users == {"u1", "u2"}
NoStats == [exists |-> FALSE, totalSubmissions |-> 0, acceptedSubmissions |-> 0,
            wrongSubmissions |-> 0, compilationErrors |-> 0, runtimeErrors |-> 0,
            timeLimitExceeded |-> 0, problemsSolved |-> 0, easySolved |-> 0,
            mediumSolved |-> 0, hardSolved |-> 0, totalXp |-> 0, streak |-> 0,
            rank |-> 0]

B2N(b) == IF b THEN 1 ELSE 0

\* the row prisma.userStatistics holds for the user after the call
updateUserStatistics(stats, st, difficulty, xpEarned) ==
    IF ~stats.exists
    THEN [exists |-> TRUE,
          problemsSolved |-> B2N(st = "Accepted"),
          totalSubmissions |-> 1,
          acceptedSubmissions |-> B2N(st = "Accepted"),
          wrongSubmissions |-> B2N(st = "Wrong Answer"),
          compilationErrors |-> B2N(st = "Compilation Error"),
          runtimeErrors |-> B2N(st = "Runtime Error"),
          timeLimitExceeded |-> B2N(st = "Time Limit Exceeded"),
          easySolved |-> B2N(st = "Accepted" /\ difficulty = "easy"),
          mediumSolved |-> B2N(st = "Accepted" /\ difficulty = "medium"),
          hardSolved |-> B2N(st = "Accepted" /\ difficulty = "hard"),
          totalXp |-> xpEarned,
          streak |-> 1,
          rank |-> 0]
    ELSE [stats EXCEPT
          !.totalSubmissions = @ + 1,
          !.acceptedSubmissions = @ + 1,
          !.wrongSubmissions = @ + 1,
          !.compilationErrors = @ + 1,
          !.runtimeErrors = @ + 1,
          !.timeLimitExceeded = @ + 1,
          !.easySolved = @ + B2N(st = "Accepted" /\ difficulty = "easy"),
          !.mediumSolved = @ + B2N(st = "Accepted" /\ difficulty = "medium"),
          !.hardSolved = @ + B2N(st = "Accepted" /\ difficulty = "hard"),
          !.totalXp = @ + xpEarned,
          !.streak = @ + 1]

\* ------------------------------------------------ updateLeaderboardRankings
\* the orders findMany({orderBy: {totalXp: "desc"}}) may return: every
\* arrangement of the existing rows with totalXp descending (ties in any order)
RankOrders(rows) ==
    LET present == {u \in Users : rows[u].exists}
        n == Cardinality(present)
    IN {o \in [1..n -> present] :
           /\ \A i, j \in 1..n : i # j => o[i] # o[j]
           /\ \A i, j \in 1..n : i < j => rows[o[i]].totalXp >= rows[o[j]].totalXp}

\* the rows after the first k updates of the loop
RanksWritten(rows, order, k) ==
    [u \in Users |->
        IF \E i \in 1..k : order[i] = u
        THEN [rows[u] EXCEPT !.rank = CHOOSE i \in 1..k : order[i] = u]
        ELSE rows[u]]

\* ------------------------------------------------------------------ inputs
\* submitted programs (lines of lexemes)
JsHashMap ==
    << <<"function", "twoSum", "{">>,
       <<"const", "seen", "=", "new", "Map(", ")", ";">>,
       <<"for (", "i", ")", "{">>,
       <<"}">>,
       <<"}">> >>
JsNestedLoops ==
    << <<"function", "twoSum", "{">>,
       <<"for (", "i", ")", "{">>,
       <<"for (", "j", ")", "{">>,
       <<"}">>,
       <<"}">>,
       <<"}">> >>
JavaHashMap ==
    << <<"import", "java.util.*", ";">>,
       <<"public", "class", "Solution", "{">>,
       <<" ", "public static void main(", ")", "{">>,
       <<" ", "HashMap", "seen", ";">>,
       <<" ", "}">>,
       <<"}">> >>
JavaNoMain ==
    << <<"public", "class", "Solution", "{">>,
       <<"}">> >>
CppNoSemicolon ==
    << <<"#include", "<vector>">>,
       <<"int", "main(", ")", "{">>,
       <<" ", "return", "0">>,
       <<"}">> >>

Submitted ==
    { [language |-> "javascript", code |-> JsHashMap],
      [language |-> "python", code |-> JsNestedLoops],
      [language |-> "java", code |-> JavaHashMap],
      [language |-> "java", code |-> JavaNoMain],
      [language |-> "cpp", code |-> CppNoSemicolon] }

\* the rows of the Problem store for the requested id
NoProblem == [exists |-> FALSE, id |-> 1, code |-> "", time_limit |-> 0,
              memory_limit |-> 0, difficulty |-> "easy"]
TwoSumProblem == [exists |-> TRUE, id |-> 1, code |-> "two-sum", time_limit |-> 0,
                  memory_limit |-> 0, difficulty |-> "easy"]

\* the test case with the given id: nums on the first line, target on the second
TestCaseRow(id) ==
    [id |-> id, input |-> id, expected_output |-> PairText(0, 1)]

\* prisma.testCase.findMany({orderBy: {id: "asc"}})
RECURSIVE SortById(_)
SortById(rows) ==
    IF rows = {} THEN <<>>
    ELSE LET lowest == CHOOSE r \in rows : \A q \in rows : r.id <= q.id
         IN <<lowest>> \o SortById(rows \ {lowest})

\* what the simulated executor answers for a two-sum test case
ExecutorResponses ==
    { Threw,
      Returned(EmptyArrayText, NoSolutionFound),
      Returned(PairText(1, 0), NoMessage),
      Returned(PairText(1, 2), NoMessage) }

\* elapsed milliseconds performance.now() can measure around the call
ElapsedTimes == {0, 500, 1500, 2500}

User == "u1"
RivalStats == [NoStats EXCEPT !.exists = TRUE, !.totalSubmissions = 1,
               !.acceptedSubmissions = 1, !.problemsSolved = 1, !.easySolved = 1,
               !.totalXp = 100, !.streak = 1, !.rank = 1]
EarlierStats == [NoStats EXCEPT !.exists = TRUE, !.totalSubmissions = 1,
                 !.wrongSubmissions = 1, !.streak = 1, !.rank = 2]

NoCalls == [executor |-> 0, classifier |-> 0, screener |-> 0]
NoFaults == [executor |-> FALSE, store |-> FALSE, write |-> FALSE,
             statistics |-> FALSE, rankings |-> FALSE]

\* ------------------------------------------------------------------- Init
\* the calls a session can make
MaxCalls == 2
Calls == 1..MaxCalls

NoAnalysis == [defined |-> FALSE]
NoRequest == [pc |-> "idle"]
NoLoop == [active |-> FALSE, returned |-> FALSE]

\* nothing classified on its own, no session, no executor loop
AuxIdle ==
    /\ analysis = NoAnalysis
    /\ requests = [c \in Calls |-> NoRequest]
    /\ overlapped = FALSE
    /\ rankingOk = TRUE
    /\ loop = NoLoop

Init ==
    /\ pc = "idle"
    /\ entry = "none"
    /\ code = <<>>
    /\ language = ""
    /\ problem \in {NoProblem, TwoSumProblem}
    /\ \E n \in 0..MaxTests : storedTestCases = {TestCaseRow(id) : id \in 1..n}
    /\ (~problem.exists => storedTestCases = {})
    /\ testCases = <<>>
    /\ slots = <<>>
    /\ completionOrder = <<>>
    /\ vt = NoValidation
    /\ executionResult = NoExecution
    /\ status = "none"
    /\ submissions = <<>>
    /\ solutions = <<>>
    /\ userStatistics \in {[u \in Users |-> IF u = User THEN s ELSE RivalStats] :
                             s \in {NoStats, EarlierStats}}
    /\ ret = NoReturn
    /\ calls = NoCalls
    /\ faults = NoFaults
    /\ step = "idle"
    /\ tag = "general"
    /\ given = <<>>
    /\ other = <<>>
    /\ canonical = <<>>
    /\ canonicalOther = <<>>
    /\ again = <<>>
    /\ padded = <<>>
    /\ verdict = NoVerdict
    /\ AuxIdle

\* control returns from executeCode to whoever called it
AfterExecuteCode == IF entry = "executeCode" THEN "done" ELSE "returned"

\* ---------------------------------------------------------------- actions
\* The page calls executeCode (the Run button).
RunCode ==
    /\ pc = "idle"
    /\ UNCHANGED <<checkerVars, auxVars>>
    /\ \E s \in Submitted : code' = s.code /\ language' = s.language
    /\ entry' = "executeCode"
    /\ pc' = "compile"
    /\ UNCHANGED <<problem, storedTestCases, testCases, slots, completionOrder, vt,
                   executionResult, status, submissions, solutions, userStatistics,
                   ret, calls, faults>>

\* The page calls submitSolution: the problem lookup, then executeCode.
SubmitSolution ==
    /\ pc = "idle"
    /\ UNCHANGED <<checkerVars, auxVars>>
    /\ \E s \in Submitted : code' = s.code /\ language' = s.language
    /\ entry' = "submitSolution"
    /\ \E thrown \in BOOLEAN :
          IF thrown \/ ~problem.exists
          THEN /\ ret' = [defined |-> TRUE, success |-> FALSE,
                          message |-> "Failed to submit solution",
                          hasExecutionResult |-> FALSE, pointsEarned |-> 0]
               /\ faults' = [faults EXCEPT !.store = thrown]
               /\ pc' = "done"
          ELSE /\ pc' = "compile"
               /\ UNCHANGED <<ret, faults>>
    /\ UNCHANGED <<problem, storedTestCases, testCases, slots, completionOrder, vt,
                   executionResult, status, submissions, solutions, userStatistics,
                   calls>>

\* validateTestCases: compileCode, and the early return when it fails.
Compile ==
    /\ pc = "compile"
    /\ UNCHANGED <<checkerVars, auxVars>>
    /\ LET compilationResult == compileCode(code, language) IN
       IF CompilationFailed(compilationResult)
       THEN /\ vt' = EarlyReturn(TRUE, compilationResult.error, FailedToCompile)
            /\ executionResult' = executeCodeReturn(vt')
            /\ pc' = AfterExecuteCode
       ELSE /\ pc' = "fetchProblem"
            /\ UNCHANGED <<vt, executionResult>>
    /\ UNCHANGED <<entry, code, language, problem, storedTestCases, testCases, slots,
                   completionOrder, status, submissions, solutions, userStatistics,
                   ret, calls, faults>>

\* validateTestCases: prisma.problem.findUnique.
FetchProblem ==
    /\ pc = "fetchProblem"
    /\ UNCHANGED <<checkerVars, auxVars>>
    /\ \E thrown \in BOOLEAN :
          IF thrown
          THEN /\ executionResult' = executeCodeCatch(StoreThrown)
               /\ faults' = [faults EXCEPT !.store = TRUE]
               /\ pc' = AfterExecuteCode
               /\ UNCHANGED vt
          ELSE IF ~problem.exists
          THEN /\ vt' = EarlyReturn(FALSE, NoMessage, ProblemNotFound)
               /\ executionResult' = executeCodeReturn(vt')
               /\ pc' = AfterExecuteCode
               /\ UNCHANGED faults
          ELSE /\ pc' = "fetchTestCases"
               /\ UNCHANGED <<vt, executionResult, faults>>
    /\ UNCHANGED <<entry, code, language, problem, storedTestCases, testCases, slots,
                   completionOrder, status, submissions, solutions, userStatistics,
                   ret, calls>>

\* validateTestCases: prisma.testCase.findMany, then one executeTestCase
\* promise per test case is created.
FetchTestCases ==
    /\ pc = "fetchTestCases"
    /\ UNCHANGED <<checkerVars, auxVars>>
    /\ \E thrown \in BOOLEAN :
          IF thrown
          THEN /\ executionResult' = executeCodeCatch(StoreThrown)
               /\ faults' = [faults EXCEPT !.store = TRUE]
               /\ pc' = AfterExecuteCode
               /\ UNCHANGED <<vt, testCases>>
          ELSE IF SortById(storedTestCases) = <<>>
          THEN /\ vt' = EarlyReturn(FALSE, NoMessage, NoTestCasesFound)
               /\ executionResult' = executeCodeReturn(vt')
               /\ pc' = AfterExecuteCode
               /\ UNCHANGED <<faults, testCases>>
          ELSE /\ testCases' = SortById(storedTestCases)
               /\ pc' = "running"
               /\ UNCHANGED <<vt, executionResult, faults>>
    /\ UNCHANGED <<entry, code, language, problem, storedTestCases, slots,
                   completionOrder, status, submissions, solutions, userStatistics,
                   ret, calls>>

\* One executeTestCase promise settles: the Executor is called, the elapsed
\* time measured, and the TestCaseResult built.
ExecuteTestCase(i) ==
    /\ pc = "running"
    /\ UNCHANGED <<checkerVars, auxVars>>
    /\ i \in 1..Len(testCases)
    /\ i \notin DOMAIN slots
    /\ \E response \in ExecutorResponses, elapsed \in ElapsedTimes :
          /\ slots' = slots @@ (i :> executeTestCase(testCases[i], response, elapsed,
                                      ProblemTypeOf(problem), TimeLimitOf(problem),
                                      MemoryLimitOf(problem)))
          /\ faults' = [faults EXCEPT !.executor = @ \/ response.threw]
    /\ completionOrder' = Append(completionOrder, i)
    /\ calls' = [calls EXCEPT !.executor = @ + 1]
    /\ UNCHANGED <<pc, entry, code, language, problem, storedTestCases, testCases, vt,
                   executionResult, status, submissions, solutions, userStatistics,
                   ret>>

\* Promise.all resolves; validateTestCases counts, classifies, screens and
\* returns; executeCode builds its ExecutionResult.
CollectResults ==
    /\ pc = "running"
    /\ UNCHANGED <<checkerVars, auxVars>>
    /\ DOMAIN slots = 1..Len(testCases)
    /\ LET results == PromiseAll(slots, completionOrder, Len(testCases)) IN
       vt' = Scored(results, code, language, problem, Len(testCases))
    /\ executionResult' = executeCodeReturn(vt')
    /\ calls' = [calls EXCEPT !.classifier = @ + 1, !.screener = @ + 1]
    /\ pc' = AfterExecuteCode
    /\ UNCHANGED <<entry, code, language, problem, storedTestCases, testCases, slots,
                   completionOrder, status, submissions, solutions, userStatistics,
                   ret, faults>>

AbortReturn == [defined |-> TRUE, success |-> FALSE,
                message |-> "Failed to submit solution",
                hasExecutionResult |-> FALSE, pointsEarned |-> 0]

SubmissionRow(st) == [userId |-> User, problemId |-> problem.id, status |-> st]

\* the Solution row submitSolution creates for an accepted submission
SolutionRow(st) ==
    [userId |-> User, problemId |-> problem.id, status |-> st,
     xpEarned |-> XpEarned(st), isOptimal |-> TRUE]

\* submitSolution after executeCode returned: the compilation-error branch
\* (one insert, with a fallback insert when the first attempt throws), the
\* plagiarism gate, then the status and prisma.submission.create.
SaveSubmission ==
    /\ pc = "returned"
    /\ UNCHANGED <<checkerVars, auxVars>>
    /\ IF executionResult.compilationError
       THEN \E firstThrows \in BOOLEAN, fallbackThrows \in BOOLEAN :
               /\ status' = "Compilation Error"
               /\ faults' = [faults EXCEPT !.write = firstThrows]
               /\ IF firstThrows /\ fallbackThrows
                  THEN /\ ret' = AbortReturn
                       /\ UNCHANGED submissions
                  ELSE /\ submissions' = Append(submissions, SubmissionRow(status'))
                       /\ ret' = [defined |-> TRUE, success |-> FALSE,
                                  message |-> "Compilation Error",
                                  hasExecutionResult |-> TRUE, pointsEarned |-> 0]
               /\ pc' = "done"
       ELSE IF PlagiarismBlocked(executionResult)
       THEN /\ ret' = [defined |-> TRUE, success |-> FALSE,
                       message |-> "Potential plagiarism detected",
                       hasExecutionResult |-> TRUE, pointsEarned |-> 0]
            /\ pc' = "done"
            /\ UNCHANGED <<status, submissions, faults>>
       ELSE \E thrown \in BOOLEAN :
               /\ status' = DetermineStatus(executionResult)
               /\ faults' = [faults EXCEPT !.write = thrown]
               /\ IF thrown
                  THEN /\ ret' = AbortReturn
                       /\ pc' = "done"
                       /\ UNCHANGED submissions
                  ELSE /\ submissions' = Append(submissions, SubmissionRow(status'))
                       /\ pc' = "saveSolution"
                       /\ UNCHANGED ret
    /\ UNCHANGED <<entry, code, language, problem, storedTestCases, testCases, slots,
                   completionOrder, vt, executionResult, solutions, userStatistics,
                   calls>>

\* submitSolution: prisma.solution.create when the status is Accepted.
SaveSolution ==
    /\ pc = "saveSolution"
    /\ UNCHANGED <<checkerVars, auxVars>>
    /\ IF ShouldSaveSolution(status)
       THEN \E thrown \in BOOLEAN :
               /\ faults' = [faults EXCEPT !.write = thrown]
               /\ IF thrown
                  THEN /\ ret' = AbortReturn
                       /\ pc' = "done"
                       /\ UNCHANGED solutions
                  ELSE /\ solutions' = Append(solutions, SolutionRow(status))
                       /\ pc' = "updateStatistics"
                       /\ UNCHANGED ret
       ELSE /\ pc' = "updateStatistics"
            /\ UNCHANGED <<solutions, ret, faults>>
    /\ UNCHANGED <<entry, code, language, problem, storedTestCases, testCases, slots,
                   completionOrder, vt, executionResult, status, submissions,
                   userStatistics, calls>>

\* where submitSolution continues when updateUserStatistics threw
AfterStatisticsFailurePropagated == "done"

AfterStatisticsFailure == "updateRankings"

\* submitSolution: updateUserStatistics inside its try/catch.
UpdateStatistics ==
    /\ pc = "updateStatistics"
    /\ UNCHANGED <<checkerVars, auxVars>>
    /\ \E thrown \in BOOLEAN :
          IF thrown
          THEN /\ faults' = [faults EXCEPT !.statistics = TRUE]
               /\ pc' = AfterStatisticsFailure
               /\ ret' = IF pc' = "done" THEN AbortReturn ELSE ret
               /\ UNCHANGED userStatistics
          ELSE /\ userStatistics' =
                     [userStatistics EXCEPT ![User] =
                         updateUserStatistics(@, status, problem.difficulty,
                                              XpEarned(status))]
               /\ pc' = "updateRankings"
               /\ UNCHANGED <<faults, ret>>
    /\ UNCHANGED <<entry, code, language, problem, storedTestCases, testCases, slots,
                   completionOrder, vt, executionResult, status, submissions,
                   solutions, calls>>

\* submitSolution: updateLeaderboardRankings inside its try/catch (the loop
\* may throw after k of the rank updates), then the successful return.
UpdateRankings ==
    /\ pc = "updateRankings"
    /\ UNCHANGED <<checkerVars, auxVars>>
    /\ \E order \in RankOrders(userStatistics) :
       \E k \in 0..Len(order) :
          /\ userStatistics' = RanksWritten(userStatistics, order, k)
          /\ faults' = [faults EXCEPT !.rankings = (k < Len(order))]
    /\ ret' = [defined |-> TRUE, success |-> TRUE, message |-> "none",
               hasExecutionResult |-> TRUE, pointsEarned |-> XpEarned(status)]
    /\ pc' = "done"
    /\ UNCHANGED <<entry, code, language, problem, storedTestCases, testCases, slots,
                   completionOrder, vt, executionResult, status, submissions,
                   solutions, calls>>

Next ==
    \/ RunCode
    \/ SubmitSolution
    \/ Compile
    \/ FetchProblem
    \/ FetchTestCases
    \/ \E i \in 1..MaxTests + 1 : ExecuteTestCase(i)
    \/ CollectResults
    \/ SaveSubmission
    \/ SaveSolution
    \/ UpdateStatistics
    \/ UpdateRankings

Spec == Init /\ [][Next]_vars

\* ------------------------------------------------------------ the checker
\* normalizeOutput and compareOutputs on their own: one output text is
\* normalized (as given, with whitespace around it, and a second time) and
\* compared with an expected output the way executeTestCase does it.

\* the characters of the output texts
Alphabet == {"[", "]", ",", " ", "0", "1", "A", "\""}

\* every text of at most n characters
Texts(n) == UNION {[1..k -> Alphabet] : k \in 0..n}

\* indices an answer can hold; the last one has two digits
LargeIndex == 10
Indices == (0..MaxIndex) \cup {LargeIndex}

NumericSequences == UNION {[1..k -> Indices] : k \in 1..MaxItems}

\* the numbers written one after the other with sep between them
RECURSIVE JoinNumbers(_, _)
JoinNumbers(numbers, sep) ==
    IF Len(numbers) = 1 THEN NatToText(numbers[1])
    ELSE NatToText(numbers[1]) \o sep \o JoinNumbers(Tail(numbers), sep)

Separators == {<<",">>, <<",", " ">>}
Bracketed(numbers, sep) == <<"[">> \o JoinNumbers(numbers, sep) \o <<"]">>
CommaDelimited(numbers) == JoinNumbers(numbers, <<",">>)

\* the output texts handed to normalizeOutput
Givens ==
    Texts(MaxLen) \cup {Bracketed(n, sep) : n \in NumericSequences, sep \in Separators}

\* expected outputs a test case can store whatever the program printed
StoredExpected == {<<>>, <<"1">>, <<"[">>, <<"A", ",">>, PairText(0, 1)}

\* expected outputs that write the value of the given text another way: the
\* same text, the pair with its indices exchanged, the sequence without
\* brackets
Rewritten(t) ==
    {t}
    \cup {PairText(p[2], p[1]) :
            p \in {q \in Indices \X Indices : PairText(q[1], q[2]) = t}}
    \cup {CommaDelimited(n) :
            n \in {m \in NumericSequences : \E sep \in Separators : Bracketed(m, sep) = t}}

ExpectedOutputs(t) == StoredExpected \cup Rewritten(t)

Whitespace == {<<>>, <<" ">>, <<"\t", "\n">>}

ProblemTypes == {"two-sum", "array", "string", "general"}

CheckerInit ==
    /\ pc = "idle"
    /\ entry = "none"
    /\ code = <<>>
    /\ language = ""
    /\ problem = NoProblem
    /\ storedTestCases = {}
    /\ testCases = <<>>
    /\ slots = <<>>
    /\ completionOrder = <<>>
    /\ vt = NoValidation
    /\ executionResult = NoExecution
    /\ status = "none"
    /\ submissions = <<>>
    /\ solutions = <<>>
    /\ userStatistics = [u \in Users |-> NoStats]
    /\ ret = NoReturn
    /\ calls = NoCalls
    /\ faults = NoFaults
    /\ step = "given"
    /\ tag \in ProblemTypes
    /\ given \in Givens
    /\ other = <<>>
    /\ canonical = <<>>
    /\ canonicalOther = <<>>
    /\ again = <<>>
    /\ padded = <<>>
    /\ verdict = NoVerdict
    /\ AuxIdle

\* normalizeOutput(output, language, problemType)
Normalize ==
    /\ step = "given"
    /\ canonical' = normalizeOutput(given, tag)
    /\ step' = "normalized"
    /\ UNCHANGED <<judgeVars, auxVars, tag, given, other, canonicalOther, again, padded, verdict>>

\* normalizeOutput applied to its own result
NormalizeAgain ==
    /\ step = "normalized"
    /\ again' = normalizeOutput(canonical, tag)
    /\ step' = "renormalized"
    /\ UNCHANGED <<judgeVars, auxVars, tag, given, other, canonical, canonicalOther, padded,
                   verdict>>

\* normalizeOutput of the text with whitespace in front of it and behind it
NormalizePadded ==
    /\ step = "given"
    /\ \E w1 \in Whitespace, w2 \in Whitespace :
          /\ padded' = w1 \o given \o w2
          /\ canonical' = normalizeOutput(padded', tag)
    /\ step' = "padded"
    /\ UNCHANGED <<judgeVars, auxVars, tag, given, other, canonicalOther, again, verdict>>

\* executeTestCase: both outputs normalized, then compareOutputs
Compare ==
    /\ step = "given"
    /\ \E expectedOutput \in ExpectedOutputs(given) :
          /\ other' = expectedOutput
          /\ canonicalOther' = normalizeOutput(expectedOutput, tag)
    /\ canonical' = normalizeOutput(formatOutput(given), tag)
    /\ verdict' = compareOutputs(canonicalOther', canonical', tag)
    /\ step' = "compared"
    /\ UNCHANGED <<judgeVars, auxVars, tag, given, again, padded>>

CheckerNext ==
    \/ Normalize
    \/ NormalizeAgain
    \/ NormalizePadded
    \/ Compare

CheckerSpec == CheckerInit /\ [][CheckerNext]_vars

\* ----------------------------------------------------------- the compiler
\* compileCode on its own: executeCode is called with a source built from a
\* few kinds of lines, and validateTestCases compiles it.

Languages == {"javascript", "python", "java", "cpp"}

\* the kinds of source lines
LineKinds ==
    { <<>>,
      <<" ", "}">>,
      <<"public", "class", "Solution", "{">>,
      <<"public static void main(", ")", "{">>,
      <<"return", "0", ";">>,
      <<" ", "return", "0">>,
      <<"//", "note">>,
      <<"import", "java.util.*">>,
      <<"#include", "<vector>">>,
      <<"x", "=", "1", ";", "/*", "note", "*/">> }

\* every source of at most n lines
Sources(n) == UNION {[1..k -> LineKinds] : k \in 0..n}

CompilerInit ==
    /\ pc = "idle"
    /\ entry = "none"
    /\ code = <<>>
    /\ language = ""
    /\ problem = TwoSumProblem
    /\ storedTestCases = {TestCaseRow(1)}
    /\ testCases = <<>>
    /\ slots = <<>>
    /\ completionOrder = <<>>
    /\ vt = NoValidation
    /\ executionResult = NoExecution
    /\ status = "none"
    /\ submissions = <<>>
    /\ solutions = <<>>
    /\ userStatistics = [u \in Users |-> NoStats]
    /\ ret = NoReturn
    /\ calls = NoCalls
    /\ faults = NoFaults
    /\ step = "idle"
    /\ tag = "general"
    /\ given = <<>>
    /\ other = <<>>
    /\ canonical = <<>>
    /\ canonicalOther = <<>>
    /\ again = <<>>
    /\ padded = <<>>
    /\ verdict = NoVerdict
    /\ AuxIdle

\* The page calls executeCode with one of the sources.
RunSource ==
    /\ pc = "idle"
    /\ UNCHANGED <<checkerVars, auxVars>>
    /\ code' \in Sources(MaxLines)
    /\ language' \in Languages
    /\ entry' = "executeCode"
    /\ pc' = "compile"
    /\ UNCHANGED <<problem, storedTestCases, testCases, slots, completionOrder, vt,
                   executionResult, status, submissions, solutions, userStatistics,
                   ret, calls, faults>>

CompilerNext ==
    \/ RunSource
    \/ Compile

CompilerSpec == CompilerInit /\ [][CompilerNext]_vars

\* --------------------------------------------------------- the classifier
\* analyzeCodeComplexity on its own: a source built from lines that carry the
\* patterns the classifier looks for, and a problem of each type.

SignalLines ==
    { <<"x", "=", "1", ";">>,
      <<"for (", "i", ")", "{">>,
      <<"while (", "x", ")", "{">>,
      <<"seen", "=", "new", "Map(", ")", ";">>,
      <<"left", "=", "0", ";">>,
      <<"if", "(", "x", "< mid", ")", "{">>,
      <<"nums", ".sort(", ")", ";">>,
      <<"mid", "=", "1", ";">> }

SignalSources(n) == UNION {[1..k -> SignalLines] : k \in 0..n}

\* the values of problem.code: the three types with a decision table of
\* their own, an unset column and a type without a table
ProblemCodes == {"two-sum", "binary-search", "sorting", "", "array"}

ClassifierInit ==
    /\ pc = "idle"
    /\ entry = "none"
    /\ code \in SignalSources(MaxSignals)
    /\ language = "javascript"
    /\ problem \in {[TwoSumProblem EXCEPT !.code = t] : t \in ProblemCodes}
    /\ storedTestCases = {TestCaseRow(1)}
    /\ testCases = <<>>
    /\ slots = <<>>
    /\ completionOrder = <<>>
    /\ vt = NoValidation
    /\ executionResult = NoExecution
    /\ status = "none"
    /\ submissions = <<>>
    /\ solutions = <<>>
    /\ userStatistics = [u \in Users |-> NoStats]
    /\ ret = NoReturn
    /\ calls = NoCalls
    /\ faults = NoFaults
    /\ step = "idle"
    /\ tag = "general"
    /\ given = <<>>
    /\ other = <<>>
    /\ canonical = <<>>
    /\ canonicalOther = <<>>
    /\ again = <<>>
    /\ padded = <<>>
    /\ verdict = NoVerdict
    /\ AuxIdle

\* validateTestCases: analyzeCodeComplexity(code, language, problemType)
Classify ==
    /\ ~analysis.defined
    /\ pc = "idle"
    /\ analysis' = [defined |-> TRUE]
                       @@ analyzeCodeComplexity(code, language, ProblemTypeOf(problem))
    /\ UNCHANGED <<judgeVars, checkerVars, sessionVars, executorVars>>

ClassifierNext == Classify

ClassifierSpec == ClassifierInit /\ [][ClassifierNext]_vars

\* ------------------------------------------------------------ the session
\* Several submitSolution calls in flight.  The judge run of a call is the
\* one Spec describes; here its verdict is an input, and what follows it
\* (lines 664-713) is taken one store operation at a time, the calls
\* interleaving at every await.

\* the statuses submitSolution determines for a judged submission
Verdicts == {"Accepted", "Wrong Answer", "Runtime Error"}

RowOf(row, userId) == [row EXCEPT !.userId = userId]

InProgress(c) == requests[c].pc \notin {"idle", "done"}

Returned2(r) == [pc |-> "done", userId |-> r.userId, status |-> r.status,
                 stats |-> NoStats, order |-> <<>>, k |-> 0]

\* the stores before the session: empty, or holding one accepted submission
\* of the second user
SessionInit ==
    /\ pc = "idle"
    /\ entry = "none"
    /\ code = <<>>
    /\ language = ""
    /\ problem = TwoSumProblem
    /\ storedTestCases = {TestCaseRow(1)}
    /\ testCases = <<>>
    /\ slots = <<>>
    /\ completionOrder = <<>>
    /\ vt = NoValidation
    /\ executionResult = NoExecution
    /\ status = "none"
    /\ \E earlier \in BOOLEAN :
          IF earlier
          THEN /\ submissions = <<RowOf(SubmissionRow("Accepted"), "u2")>>
               /\ solutions = <<RowOf(SolutionRow("Accepted"), "u2")>>
               /\ userStatistics = [u \in Users |-> IF u = "u2" THEN RivalStats ELSE NoStats]
          ELSE /\ submissions = <<>>
               /\ solutions = <<>>
               /\ userStatistics = [u \in Users |-> NoStats]
    /\ ret = NoReturn
    /\ calls = NoCalls
    /\ faults = NoFaults
    /\ step = "idle"
    /\ tag = "general"
    /\ given = <<>>
    /\ other = <<>>
    /\ canonical = <<>>
    /\ canonicalOther = <<>>
    /\ again = <<>>
    /\ padded = <<>>
    /\ verdict = NoVerdict
    /\ AuxIdle

\* what no action of the session touches
sessionFrame == <<pc, entry, code, language, problem, storedTestCases, testCases, slots,
                  completionOrder, vt, executionResult, status, ret, calls, faults,
                  checkerVars, classifierVars, executorVars>>

\* submitSolution up to prisma.submission.create: the call is made, the
\* judge returns its verdict and the Submission row is written
CreateSubmission(c) ==
    /\ requests[c].pc = "idle"
    /\ \A d \in Calls : d < c => requests[d].pc # "idle"
    /\ \E u \in Users, st \in Verdicts :
          /\ submissions' = Append(submissions, RowOf(SubmissionRow(st), u))
          /\ requests' = [requests EXCEPT ![c] =
                 [pc |-> IF ShouldSaveSolution(st) THEN "createSolution"
                         ELSE "readStatistics",
                  userId |-> u, status |-> st, stats |-> NoStats, order |-> <<>>,
                  k |-> 0]]
    /\ overlapped' = (overlapped \/ \E d \in Calls \ {c} : InProgress(d))
    /\ UNCHANGED <<sessionFrame, solutions, userStatistics, rankingOk>>

\* prisma.solution.create for an accepted submission
CreateSolution(c) ==
    /\ requests[c].pc = "createSolution"
    /\ solutions' = Append(solutions,
                           RowOf(SolutionRow(requests[c].status), requests[c].userId))
    /\ requests' = [requests EXCEPT ![c].pc = "readStatistics"]
    /\ UNCHANGED <<sessionFrame, submissions, userStatistics, overlapped, rankingOk>>

\* updateUserStatistics: prisma.userStatistics.findUnique
ReadStatistics(c) ==
    /\ requests[c].pc = "readStatistics"
    /\ requests' = [requests EXCEPT ![c].pc = "writeStatistics",
                                    ![c].stats = userStatistics[requests[c].userId]]
    /\ UNCHANGED <<sessionFrame, submissions, solutions, userStatistics, overlapped,
                   rankingOk>>

\* updateUserStatistics: create when findUnique returned no row (a row
\* written in between makes create throw on the unique userId, and
\* submitSolution catches it), else update with the values computed from
\* the row that was read; update leaves the columns it does not name alone
WriteStatistics(c) ==
    /\ requests[c].pc = "writeStatistics"
    /\ LET r == requests[c]
           current == userStatistics[r.userId]
           computed == updateUserStatistics(r.stats, r.status, problem.difficulty,
                                            XpEarned(r.status))
       IN userStatistics' =
             IF ~r.stats.exists
             THEN IF current.exists THEN userStatistics
                  ELSE [userStatistics EXCEPT ![r.userId] = computed]
             ELSE [userStatistics EXCEPT ![r.userId] =
                      [computed EXCEPT !.rank = current.rank,
                                       !.problemsSolved = current.problemsSolved]]
    /\ requests' = [requests EXCEPT ![c].pc = "readRankings"]
    /\ UNCHANGED <<sessionFrame, submissions, solutions, overlapped, rankingOk>>

\* updateLeaderboardRankings: prisma.userStatistics.findMany
ReadRankings(c) ==
    /\ requests[c].pc = "readRankings"
    /\ \E order \in RankOrders(userStatistics) :
          requests' = [requests EXCEPT ![c] =
              IF order = <<>> THEN Returned2(@)
              ELSE [@ EXCEPT !.pc = "writeRankings", !.order = order, !.k = 0]]
    /\ rankingOk' = IF requests'[c].pc = "done" THEN TRUE ELSE rankingOk
    /\ UNCHANGED <<sessionFrame, submissions, solutions, userStatistics, overlapped>>

\* updateLeaderboardRankings: one prisma.userStatistics.update of the loop;
\* after the last one submitSolution returns
WriteRank(c) ==
    /\ requests[c].pc = "writeRankings"
    /\ LET r == requests[c] IN
          /\ userStatistics' = [userStatistics EXCEPT ![r.order[r.k + 1]].rank = r.k + 1]
          /\ IF r.k + 1 = Len(r.order)
             THEN /\ requests' = [requests EXCEPT ![c] = Returned2(r)]
                  /\ rankingOk' = TRUE
             ELSE /\ requests' = [requests EXCEPT ![c].k = r.k + 1]
                  /\ UNCHANGED rankingOk
    /\ UNCHANGED <<sessionFrame, submissions, solutions, overlapped>>

\* updateLeaderboardRankings throws; submitSolution catches and returns
RankingThrows(c) ==
    /\ requests[c].pc \in {"readRankings", "writeRankings"}
    /\ requests' = [requests EXCEPT ![c] = Returned2(@)]
    /\ rankingOk' = FALSE
    /\ UNCHANGED <<sessionFrame, submissions, solutions, userStatistics, overlapped>>

SessionNext ==
    \E c \in Calls :
        \/ CreateSubmission(c)
        \/ CreateSolution(c)
        \/ ReadStatistics(c)
        \/ WriteStatistics(c)
        \/ ReadRankings(c)
        \/ WriteRank(c)
        \/ RankingThrows(c)

SessionSpec == SessionInit /\ [][SessionNext]_vars

\* ----------------------------------------------------------- the executor
\* The judge with the simulated executor of language-executors.ts in place
\* of its set of answers: executeJavaScript, executePython, executeJava and
\* executeCpp share the code modelled here (none of the submitted programs
\* is a print statement).  The call is synchronous: while it runs nothing
\* else does.

\* the arrays of a test case input, and its target
NumsInputs == UNION {[1..k -> {1, 2}] : k \in 0..MaxNums}
Target == 3

ExecutorTestCase(id, nums) ==
    [id |-> id, input |-> [nums |-> nums, target |-> Target],
     expected_output |-> PairText(0, 1)]

\* Math.floor(Math.random() * n)
RandomIndex(n) == IF n = 0 THEN {0} ELSE 0..(n - 1)

\* the pairs i < j (0-based) with nums[i] + nums[j] === target
Solutions(nums, target) ==
    {p \in (0..(Len(nums) - 1)) \X (0..(Len(nums) - 1)) :
        p[1] < p[2] /\ nums[p[1] + 1] + nums[p[2] + 1] = target}

\* the branch returnCorrectAnswer: the first pair found by the two loops,
\* or the "No solution found" error
CorrectAnswer(nums, target) ==
    IF Solutions(nums, target) = {} THEN Returned(EmptyArrayText, NoSolutionFound)
    ELSE LET p == CHOOSE q \in Solutions(nums, target) :
                     \A r \in Solutions(nums, target) :
                         q[1] < r[1] \/ (q[1] = r[1] /\ q[2] <= r[2])
         IN Returned(PairText(p[1], p[2]), NoMessage)

\* the other branch once the loop `while (j === i)` is left
IncorrectAnswer(i, j) == Returned(PairText(i, j), NoMessage)

ExecutorInit ==
    /\ pc = "idle"
    /\ entry = "none"
    /\ code = <<>>
    /\ language = ""
    /\ problem = TwoSumProblem
    /\ \E n \in 1..MaxTests :
       \E inputs \in [1..n -> NumsInputs] :
          storedTestCases = {ExecutorTestCase(id, inputs[id]) : id \in 1..n}
    /\ testCases = <<>>
    /\ slots = <<>>
    /\ completionOrder = <<>>
    /\ vt = NoValidation
    /\ executionResult = NoExecution
    /\ status = "none"
    /\ submissions = <<>>
    /\ solutions = <<>>
    /\ userStatistics = [u \in Users |-> NoStats]
    /\ ret = NoReturn
    /\ calls = NoCalls
    /\ faults = NoFaults
    /\ step = "idle"
    /\ tag = "general"
    /\ given = <<>>
    /\ other = <<>>
    /\ canonical = <<>>
    /\ canonicalOther = <<>>
    /\ again = <<>>
    /\ padded = <<>>
    /\ verdict = NoVerdict
    /\ AuxIdle

\* the executor returned to executeTestCase
ReturnedCall(i, response) ==
    [active |-> FALSE, returned |-> TRUE, testCase |-> i, i |-> 0, j |-> 0,
     response |-> response]

\* the executor is inside `while (j === i)`
Looping(i, a, b) ==
    [active |-> TRUE, returned |-> FALSE, testCase |-> i, i |-> a, j |-> b,
     response |-> Returned(<<>>, NoMessage)]

executorFrame == <<pc, entry, code, language, problem, storedTestCases, testCases, vt,
                   executionResult, status, submissions, solutions, userStatistics,
                   ret, faults, checkerVars, classifierVars, sessionVars>>

\* executeTestCase calls runCodeInLanguage: the executor picks its branch
\* and either returns or enters the loop with j === i
CallExecutor(i) ==
    /\ pc = "running"
    /\ loop = NoLoop
    /\ i \in 1..Len(testCases)
    /\ i \notin DOMAIN slots
    /\ LET nums == testCases[i].input.nums
           target == testCases[i].input.target
       IN \E returnCorrectAnswer \in BOOLEAN :
             IF returnCorrectAnswer
             THEN loop' = ReturnedCall(i, CorrectAnswer(nums, target))
             ELSE \E a \in RandomIndex(Len(nums)), b \in RandomIndex(Len(nums)) :
                     loop' = IF b # a THEN ReturnedCall(i, IncorrectAnswer(a, b))
                             ELSE Looping(i, a, b)
    /\ calls' = [calls EXCEPT !.executor = @ + 1]
    /\ UNCHANGED <<executorFrame, slots, completionOrder>>

\* one turn of `while (j === i) { j = Math.floor(Math.random() * nums.length) }`
Redraw ==
    /\ pc = "running"
    /\ loop.active
    /\ \E b \in RandomIndex(Len(testCases[loop.testCase].input.nums)) :
          loop' = IF b # loop.i
                  THEN ReturnedCall(loop.testCase, IncorrectAnswer(loop.i, b))
                  ELSE [loop EXCEPT !.j = b]
    /\ UNCHANGED <<executorFrame, slots, completionOrder, calls>>

\* executeTestCase after the executor returned: the elapsed time is taken
\* and the TestCaseResult built
BuildResult ==
    /\ pc = "running"
    /\ loop.returned
    /\ \E elapsed \in ElapsedTimes :
          slots' = slots @@ (loop.testCase :>
                      executeTestCase(testCases[loop.testCase], loop.response, elapsed,
                                      ProblemTypeOf(problem), TimeLimitOf(problem),
                                      MemoryLimitOf(problem)))
    /\ completionOrder' = Append(completionOrder, loop.testCase)
    /\ loop' = NoLoop
    /\ UNCHANGED <<executorFrame, calls>>

ExecutorNext ==
    \/ RunCode
    \/ Compile
    \/ FetchProblem
    \/ FetchTestCases
    \/ \E i \in 1..MaxTests + 1 : CallExecutor(i)
    \/ Redraw
    \/ BuildResult
    \/ CollectResults

ExecutorSpec == ExecutorInit /\ [][ExecutorNext]_vars

\* ------------------------------------------------------------ properties
Decided == status # "none"
Results == executionResult.testCaseResults
TimeLimitOfRun == TimeLimitOf(problem)

\* the test case's Executor call returned (or raised) an error of its own
ExecutorError(r) ==
    r.errorMessage # NoMessage /\ r.errorMessage \notin {TimeLimitReason, MemoryLimitReason}

\* the test case ran longer than the configured time limit and the Executor
\* reported no error of its own
ExceededTimeLimit(r) ==
    ~ExecutorError(r) /\ r.executionTime # NoTime /\ r.executionTime > TimeLimitOfRun

\* submitSolution ended before executeCode was called
LookupAborted == entry = "submitSolution" /\ pc = "done" /\ ~executionResult.defined

\* C1: when compileCode fails for the submission, executeCode reports a
\* compilation error with testCasesPassed = 0, totalTestCases = 0 and no
\* results, and neither the Executor nor the Complexity Classifier nor the
\* Plagiarism Screener is invoked in that run.
C1_CompileShortCircuit ==
    (entry # "none" /\ ~compileCode(code, language).success) =>
        /\ calls = NoCalls
        /\ (pc # "compile" /\ ~LookupAborted) =>
              /\ executionResult.defined
              /\ executionResult.compilationError
              /\ ~executionResult.success
              /\ executionResult.testCasesPassed = 0
              /\ executionResult.totalTestCases = 0
              /\ executionResult.testCaseResults = <<>>

C1_Witness ==
    /\ pc = "done"
    /\ ~compileCode(code, language).success
    /\ executionResult.defined
    /\ executionResult.compilationError
    /\ executionResult.totalTestCases = 0

\* C2: the status submitSolution decides and records is Accepted exactly
\* when testCasesPassed = totalTestCases and the run had neither a
\* compilation error nor a plagiarism block.
C2_AcceptedIff ==
    /\ Decided =>
          (status = "Accepted" <=>
              /\ executionResult.testCasesPassed = executionResult.totalTestCases
              /\ ~executionResult.compilationError
              /\ ~PlagiarismBlocked(executionResult))
    /\ \A k \in 1..Len(submissions) : submissions[k].status = status

C2_Witness ==
    /\ pc = "done"
    /\ status = "Accepted"
    /\ executionResult.totalTestCases = 2
    /\ Len(submissions) = 1
    /\ submissions[1].status = "Accepted"

C2_WitnessRejected ==
    /\ pc = "done"
    /\ status = "Wrong Answer"
    /\ executionResult.testCasesPassed = 1
    /\ executionResult.totalTestCases = 2

C4_TimeLimitStatus ==
    (/\ Decided
     /\ ~executionResult.compilationError
     /\ \A k \in 1..Len(Results) : ~ExecutorError(Results[k])
     /\ \E k \in 1..Len(Results) : ExceededTimeLimit(Results[k]))
    => status = "Time Limit Exceeded"

\* C5: when the Executor or the Problem/TestCase store threw during the run,
\* submitSolution returns the abort error and no Submission or Solution row
\* is written.
C5_FailureAborts ==
    (entry = "submitSolution" /\ pc = "done" /\ (faults.executor \/ faults.store)) =>
        /\ ret = AbortReturn
        /\ submissions = <<>>
        /\ solutions = <<>>

\* C6: when the problem does not exist or has no test cases, executeCode does
\* not report success, and submitSolution records neither Accepted nor a
\* Solution row.
C6_MissingProblemFails ==
    (~problem.exists \/ storedTestCases = {}) =>
        /\ executionResult.defined => ~executionResult.success
        /\ status # "Accepted"
        /\ solutions = <<>>

\* C8: a submitSolution call that returns with one of the five verdicts has
\* written exactly one Submission row, carrying that verdict, and a Solution
\* row exactly when the verdict is Accepted.
VerdictReturned ==
    /\ entry = "submitSolution"
    /\ pc = "done"
    /\ ret.defined
    /\ ret.message \in {"none", "Compilation Error"}

C8_WitnessNoSolution ==
    /\ VerdictReturned
    /\ status = "Runtime Error"
    /\ Len(submissions) = 1
    /\ solutions = <<>>

\* C9: when updateUserStatistics or updateLeaderboardRankings threw,
\* submitSolution still returns success with the judged result, and the
\* Submission row (and the Solution row when Accepted) written before stay.
C9_BookkeepingSwallowed ==
    (pc = "done" /\ (faults.statistics \/ faults.rankings)) =>
        /\ ret.success
        /\ ret.hasExecutionResult
        /\ ret.pointsEarned = XpEarned(status)
        /\ Len(submissions) = 1
        /\ submissions[1].status = status
        /\ status = "Accepted" => Len(solutions) = 1

C9_Witness ==
    /\ pc = "done"
    /\ faults.statistics
    /\ faults.rankings
    /\ status = "Accepted"
    /\ ret.success
    /\ Len(solutions) = 1

\* C10: the results of a run are one per test case, in the order of the test
\* cases (ascending id), whatever order the executions finished in; the pass
\* count, the Classifier and the Screener are evaluated only once every test
\* case has its result.
C10_ResultsInOrder ==
    /\ (vt.defined /\ testCases # <<>>) =>
          /\ Len(vt.results) = Len(testCases)
          /\ Len(testCases) = Cardinality(storedTestCases)
          /\ \A i \in 1..Len(testCases) :
                /\ vt.results[i].input = testCases[i].input
                /\ vt.results[i] = slots[i]
          /\ \A i, j \in 1..Len(testCases) : i < j => testCases[i].id < testCases[j].id
          /\ executionResult.testCaseResults = vt.results
          /\ vt.testCasesPassed = CountPassed(vt.results)
    /\ (vt.defined \/ calls.classifier > 0 \/ calls.screener > 0) =>
          /\ DOMAIN slots = 1..Len(testCases)
          /\ calls.executor = Len(testCases)

C10_Witness ==
    /\ vt.defined
    /\ Len(testCases) = 2
    /\ completionOrder = <<2, 1>>
    /\ vt.results[1].input = 1
    /\ vt.results[2].input = 2
    /\ vt.results[1].passed # vt.results[2].passed

\* the test case's elapsed time was measured and is above the time limit
MeasuredOverLimit(r) == r.executionTime # NoTime /\ r.executionTime > TimeLimitOfRun

\* executeCode returned the outcome of running the test cases
RanTestCases ==
    /\ executionResult.defined
    /\ ~executionResult.compilationError
    /\ DOMAIN slots = 1..Len(testCases)
    /\ testCases # <<>>

\* C11: in the result of a run, every test case whose measured elapsed time
\* is above the time limit has passed = false with the time-limit reason,
\* and the run still holds one result for each of its test cases.
C11_SlowTestCaseFails ==
    RanTestCases =>
        /\ Len(Results) = Len(testCases)
        /\ \A k \in 1..Len(Results) :
              MeasuredOverLimit(Results[k]) =>
                  /\ ~Results[k].passed
                  /\ Results[k].errorMessage = TimeLimitReason

\* C12: as soon as a test case settles, if its Executor call took longer than
\* the time limit its result is a limit-exceeded failure, whatever the
\* Executor returned (an output or an error of its own).
C12_LimitBeforeExecutorError ==
    \A i \in DOMAIN slots :
        MeasuredOverLimit(slots[i]) =>
            /\ ~slots[i].passed
            /\ ~ExecutorError(slots[i])
            /\ slots[i].errorMessage \in {TimeLimitReason, MemoryLimitReason}

\* C13: in every ExecutionResult of executeCode, testCasesPassed lies between
\* 0 and totalTestCases and is the number of results with passed = true, and
\* without a compilation error there are totalTestCases results.
C13_CountsConsistent ==
    executionResult.defined =>
        /\ 0 <= executionResult.testCasesPassed
        /\ executionResult.testCasesPassed <= executionResult.totalTestCases
        /\ executionResult.testCasesPassed =
              Cardinality({k \in 1..Len(Results) : Results[k].passed})
        /\ (~executionResult.compilationError =>
                Len(Results) = executionResult.totalTestCases)

\* a run of two test cases of which one passed
C13_Witness ==
    /\ pc = "done"
    /\ executionResult.defined
    /\ ~executionResult.compilationError
    /\ executionResult.totalTestCases = 2
    /\ executionResult.testCasesPassed = 1
    /\ Len(Results) = 2

\* C14: whatever the problem type, when the canonical forms of the expected
\* and the actual output are the same string, compareOutputs returns
\* passed = true and no diff.
C14_EqualCanonicalPasses ==
    (step = "compared" /\ canonicalOther = canonical) =>
        (verdict.passed /\ ~verdict.hasDiff)

\* C15: for the two-sum type and all indices a and b, "[a,b]" and "[b,a]"
\* have the same canonical form and compareOutputs passes them.
C15_PairOrderIrrelevant ==
    \A a \in Indices, b \in Indices :
        (/\ step = "compared"
         /\ tag = "two-sum"
         /\ given = PairText(a, b)
         /\ other = PairText(b, a))
        => (canonical = canonicalOther /\ verdict.passed)

\* the answer [10,2] compared with the expected [2,10]
C15_Witness ==
    /\ step = "compared"
    /\ tag = "two-sum"
    /\ given = PairText(LargeIndex, 2)
    /\ other = PairText(2, LargeIndex)
    /\ canonical = PairText(2, LargeIndex)
    /\ verdict.passed

\* C16: for every text and every problem type, normalizing the canonical
\* form again returns the canonical form.
C16_Idempotent ==
    step = "renormalized" => again = canonical

\* C17: for every problem type, whitespace in front of and behind the output
\* text does not change its canonical form.
C17_PaddingIgnored ==
    step = "padded" => canonical = normalizeOutput(given, tag)

\* structured parsing of compareTwoSumOutputs fails on one of the two sides
StructuredParseFails ==
    ~JSONparse(canonicalOther).ok \/ ~ActualArray(canonical).ok

\* C18: normalizeOutput returns a text for every input (the empty text for
\* the empty input) and compareOutputs returns either {passed: true} or
\* {passed: false, diff}; for the two-sum type, when one side does not parse
\* as structured data, passed is true exactly when the canonical strings
\* are equal.
C18_TotalAndDegrades ==
    /\ (step = "normalized" /\ given = <<>>) => canonical = <<>>
    /\ step \in {"normalized", "padded", "compared"} =>
          \A i \in 1..Len(canonical) : canonical[i] \in STRING
    /\ step = "compared" =>
          /\ verdict \in {Match, Mismatch}
          /\ (tag = "two-sum" /\ StructuredParseFails) =>
                (verdict.passed <=> canonicalOther = canonical)

\* malformed text on both sides of a two-sum comparison, equal as strings
C18_Witness ==
    /\ step = "compared"
    /\ tag = "two-sum"
    /\ given = <<"[">>
    /\ other = <<"[">>
    /\ StructuredParseFails
    /\ verdict = Match

\* C19: for the array type, a bracketed numeric sequence (with or without
\* spaces after the commas) and the same sequence written comma-delimited
\* without brackets have the same canonical form.
C19_BracketsOptional ==
    (/\ step = "compared"
     /\ tag = "array"
     /\ \E n \in NumericSequences, sep \in Separators :
           given = Bracketed(n, sep) /\ other = CommaDelimited(n))
    => canonical = canonicalOther

\* validateTestCases is past compileCode
Compiled == entry = "executeCode" /\ pc \in {"fetchProblem", "done"}
CompilationRejected == executionResult.defined /\ executionResult.compilationError

\* the source has no entry-point marker of its language
LacksEntryPoint ==
    \/ language = "java" /\ ~CodeIncludes(code, "public static void main")
    \/ language = "cpp" /\ ~CodeIncludes(code, "main(") /\ ~CodeIncludes(code, "main (")

\* C21: every javascript or python source passes compileCode; a java or cpp
\* source without the entry-point marker fails it, and executeCode then
\* reports a compilation error with totalTestCases = 0 and no results.
C21_EntryPointGate ==
    Compiled =>
        /\ language \in {"javascript", "python"} =>
              (~executionResult.defined /\ pc = "fetchProblem")
        /\ LacksEntryPoint =>
              /\ CompilationRejected
              /\ executionResult.errorMessage \in {MissingMain, MissingMainCpp}
              /\ executionResult.totalTestCases = 0
              /\ executionResult.testCaseResults = <<>>
              /\ ~executionResult.success

\* a C++ source of terminated statements without a main function
C21_Witness ==
    /\ Compiled
    /\ language = "cpp"
    /\ code = << <<"return", "0", ";">> >>
    /\ CompilationRejected
    /\ executionResult.totalTestCases = 0

\* the source has what compileCode looks for before it scans the lines
HasEntryPoint ==
    \/ /\ language = "java"
       /\ CodeIncludes(code, "class")
       /\ CodeIncludes(code, "public static void main")
    \/ language = "cpp" /\ (CodeIncludes(code, "main(") \/ CodeIncludes(code, "main ("))

IsComment(line) == StartsWith(line, "//") \/ StartsWith(line, "/*") \/ EndsWith(line, "*/")
IsDirective(line) ==
    IF language = "java" THEN StartsWith(line, "package") \/ StartsWith(line, "import")
    ELSE LineIncludes(line, "#include")
BraceOnly(line) == \A k \in 1..Len(line) : line[k] \in {"{", "}"}
EndsInBrace(line) == EndsWith(line, "{") \/ EndsWith(line, "}")

\* lines (1-based) the claim as stated lets the scan flag
FlaggedAsStated ==
    {n \in 1..Len(code) :
        LET line == Trim(code[n]) IN
        /\ line # <<>> /\ ~IsComment(line) /\ ~BraceOnly(line) /\ ~IsDirective(line)
        /\ ~EndsWith(line, ";")}

\* the same with every line ending in a brace exempt
FlaggedAsAmended ==
    {n \in 1..Len(code) :
        LET line == Trim(code[n]) IN
        /\ line # <<>> /\ ~IsComment(line) /\ ~EndsInBrace(line) /\ ~IsDirective(line)
        /\ ~EndsWith(line, ";")}

First(numbers) == CHOOSE n \in numbers : \A m \in numbers : n <= m

\* the error of the run cites line n of the source
CitesLine(n) ==
    /\ Includes(executionResult.errorMessage, <<"at", "line", ToString(n)>>)
    /\ Includes(executionResult.errorMessage, Trim(code[n]))
    /\ executionResult.errorMessage =
          (IF language = "java" THEN MissingTerminator ELSE MissingTerminatorCpp)
             \o <<"at", "line", ToString(n)>> \o Trim(code[n])

\* C25 as stated: a compiled-language source with its entry point fails
\* compileCode exactly when some line that is not blank, not a comment, not
\* made of braces only and not a directive lacks the terminator at its end,
\* and the error cites the first such line.
C25_TerminatorScanAsStated ==
    (Compiled /\ HasEntryPoint) =>
        /\ CompilationRejected <=> FlaggedAsStated # {}
        /\ CompilationRejected => CitesLine(First(FlaggedAsStated))

\* C25 amended: the same with every line that ends in a brace exempt (a line
\* that opens or closes a block, not only a line of braces).
C25_TerminatorScan ==
    (Compiled /\ HasEntryPoint) =>
        /\ CompilationRejected <=> FlaggedAsAmended # {}
        /\ CompilationRejected => CitesLine(First(FlaggedAsAmended))

\* a Java class whose third line lacks the terminator
C25_Witness ==
    /\ Compiled
    /\ language = "java"
    /\ code = << <<"public", "class", "Solution", "{">>,
                 <<"public static void main(", ")", "{">>,
                 <<" ", "return", "0">> >>
    /\ CompilationRejected
    /\ CitesLine(3)

\* validateTestCases ran the test cases and scored them
ScoredRun == vt.defined /\ ~vt.compilationError /\ vt.totalTestCases > 0

\* every test case of the run passed
AllPassed == \A k \in 1..Len(vt.results) : vt.results[k].passed

\* every elapsed time of the run is strictly below half the time limit
AllBelowHalfLimit ==
    \A k \in 1..Len(vt.results) :
        /\ vt.results[k].executionTime # NoTime
        /\ 2 * vt.results[k].executionTime < TimeLimitOfRun

\* C22: the isOptimal flag of a run is true exactly when every test case
\* passed, the classifier reports isOptimal and every elapsed time, 0
\* included, is strictly below half the time limit.
C22_OptimalFlag ==
    ScoredRun =>
        (vt.isOptimal <=>
            /\ AllPassed
            /\ analyzeCodeComplexity(code, language, ProblemTypeOf(problem)).isOptimal
            /\ AllBelowHalfLimit)

\* the feedback of the run holds the note
HasNote(note) == \E k \in 1..Len(vt.feedback) : vt.feedback[k] = note

\* C23: the feedback of a run holds the 'optimize' note exactly when some
\* test case result carries the time-limit error, and the 'check edge cases'
\* note exactly when some result carries an error that is not a limit error.
C23_FeedbackNotes ==
    ScoredRun =>
        /\ HasNote(OptimizeNote) <=>
              \E k \in 1..Len(vt.results) : vt.results[k].errorMessage = TimeLimitReason
        /\ HasNote(EdgeCasesNote) <=>
              \E k \in 1..Len(vt.results) : ExecutorError(vt.results[k])

\* the patterns the classifier looks for, as they occur in the source
Occurrences(lexemes) ==
    Cardinality({<<l, i>> \in (1..Len(code)) \X (1..8) :
                    i <= Len(code[l]) /\ code[l][i] \in lexemes})
NestedLoops == Occurrences({"for(", "for ("}) >= 2 \/ Occurrences({"while(", "while ("}) >= 2
HashStructure ==
    \E needle \in {"Map(", "Object.", "dict(", "HashMap", "unordered_map"} :
        CodeIncludes(code, needle)
BinarySearchShape ==
    /\ CodeIncludes(code, "mid")
    /\ CodeIncludes(code, "left") \/ CodeIncludes(code, "right")
    /\ CodeIncludes(code, "< mid") \/ CodeIncludes(code, "> mid")
LibrarySort == CodeIncludes(code, "sort(")
NoSignal == ~NestedLoops /\ ~HashStructure /\ ~BinarySearchShape /\ ~LibrarySort

\* the best known time complexity of the problem types that have a decision
\* table
ExpectedComplexity(problemType) ==
    CASE problemType = "two-sum" -> "O(n)"
      [] problemType = "binary-search" -> "O(log n)"
      [] problemType = "sorting" -> "O(n log n)"
      [] OTHER -> "none"

OptimalOnlyIfExpected ==
    analysis.isOptimal =>
        analysis.timeComplexity = ExpectedComplexity(ProblemTypeOf(problem))

\* C24 as stated: isOptimal is true only when the detected time complexity
\* is the one expected for the problem type, and a source with none of the
\* four signals is classified O(n) time, O(n) space, not optimal.
C24_ClassifierAsStated ==
    analysis.defined =>
        /\ OptimalOnlyIfExpected
        /\ NoSignal =>
              /\ analysis.timeComplexity = "O(n)"
              /\ analysis.spaceComplexity = "O(n)"
              /\ ~analysis.isOptimal

\* C24 amended: the same, with O(1) space for a source without signal when
\* the problem type is binary-search.
C24_Classifier ==
    analysis.defined =>
        /\ OptimalOnlyIfExpected
        /\ NoSignal =>
              /\ analysis.timeComplexity = "O(n)"
              /\ analysis.spaceComplexity =
                    (IF ProblemTypeOf(problem) = "binary-search" THEN "O(1)" ELSE "O(n)")
              /\ ~analysis.isOptimal

\* a source without signal classified for a sorting problem, and a hash map
\* classified optimal for a pairing problem
C24_Witness ==
    /\ analysis.defined
    /\ \/ NoSignal /\ code # <<>> /\ problem.code = "sorting"
       \/ HashStructure /\ problem.code = "two-sum" /\ analysis.isOptimal

\* C29: a Solution row of the request carries isOptimal = true only when
\* the judge run of the request determined isOptimal = true.
C29_StoredOptimalIsJudged ==
    \A k \in 1..Len(solutions) :
        solutions[k].isOptimal => (vt.defined /\ vt.isOptimal)

\* no call of the session is in progress
Quiescent == \A c \in Calls : ~InProgress(c)

\* how many judged submissions of the user are recorded with the status
Recorded(u, st) ==
    Cardinality({k \in 1..Len(submissions) :
                    submissions[k].userId = u /\ submissions[k].status = st})

\* C26: after calls of submitSolution run one at a time, the counters of a
\* user's statistics row are the numbers of the user's recorded submissions
\* with the status, acceptedSubmissions is at most totalSubmissions and the
\* four counters add up to totalSubmissions.
C26_CountersMatchVerdicts ==
    (Quiescent /\ ~overlapped) =>
        \A u \in Users :
            LET row == userStatistics[u] IN
            /\ row.acceptedSubmissions = Recorded(u, "Accepted")
            /\ row.wrongSubmissions = Recorded(u, "Wrong Answer")
            /\ row.runtimeErrors = Recorded(u, "Runtime Error")
            /\ row.timeLimitExceeded = Recorded(u, "Time Limit Exceeded")
            /\ row.acceptedSubmissions <= row.totalSubmissions
            /\ row.acceptedSubmissions + row.wrongSubmissions + row.runtimeErrors
                  + row.timeLimitExceeded = row.totalSubmissions

RECURSIVE XpRecorded(_, _)
XpRecorded(u, k) ==
    IF k = 0 THEN 0
    ELSE XpRecorded(u, k - 1)
           + (IF submissions[k].userId = u THEN XpEarned(submissions[k].status) ELSE 0)

\* C27: once the calls of the session have completed, concurrent or not,
\* every user's totalSubmissions is the number of the user's submissions and
\* totalXp the sum of the XP they earned.
C27_NoLostUpdate ==
    Quiescent =>
        \A u \in Users :
            /\ userStatistics[u].totalSubmissions =
                  Cardinality({k \in 1..Len(submissions) : submissions[k].userId = u})
            /\ userStatistics[u].totalXp = XpRecorded(u, Len(submissions))

\* the users with a statistics row
Ranked == {u \in Users : userStatistics[u].exists}

\* C28: when no call is in progress and the last rank recomputation
\* completed, the stored ranks are the distinct values 1..n and a user with
\* strictly more XP has a strictly smaller rank.
C28_RanksConsistent ==
    (Quiescent /\ rankingOk /\ \E c \in Calls : requests[c].pc = "done") =>
        /\ {userStatistics[u].rank : u \in Ranked} = 1..Cardinality(Ranked)
        /\ \A u, v \in Ranked :
              userStatistics[u].totalXp > userStatistics[v].totalXp
                 => userStatistics[u].rank < userStatistics[v].rank

\* the executor is inside its loop and no draw of j leaves it
LoopsForever ==
    /\ loop.active
    /\ \A b \in RandomIndex(Len(testCases[loop.testCase].input.nums)) : b = loop.i

\* C30: every judge run terminates: the Executor call of a test case is
\* never inside a loop that no draw leaves (from such a state the call does
\* not return, and no TestCaseResult or ExecutionResult follows).
C30_ExecutorReturns == ~LoopsForever

====
